---- MODULE Spec2Model ----
(***************************************************************************)
(* Model of the Alibaba product image scraper (ImageUrlExtractor,          *)
(* ImageDownloader, AlibabaImageScraper).                                  *)
(*                                                                         *)
(* Strings are modelled as sequences of tokens.  A token is a piece of a   *)
(* URL cut at the places where the regular expressions of the source can   *)
(* tell two strings apart: the scheme, the host, a path segment, a size    *)
(* marker, the quality suffix, an image extension, the "?" separator, a    *)
(* query parameter.  Every regular expression of the source is translated  *)
(* to a predicate or a function over token sequences.                      *)
(***************************************************************************)
EXTENDS Integers, Sequences, FiniteSets, TLC

----------------------------------------------------------------------------
(* Tokens *)

Scheme == "https://"
DataScheme == "data:image/png;base64,"
Quote == "\""

\* hosts containing ".alicdn.com"
AlicdnHosts == {"s.alicdn.com", "sc04.alicdn.com", "img.alicdn.com"}
\* hosts matching sc\d+\.alicdn\.com
ScHosts == {"sc04.alicdn.com"}

\* image extensions: \.(jpg|jpeg|png|webp|gif)
ExtTokens == {".jpg", ".png"}

\* size markers: _\d+x\d+
HighResMarkers == {"_960x960", "_800x800", "_1200x1200", "_1600x1600"}
LowResMarkers == {"_50x50", "_100x100", "_80x80"}
SmallUiMarkers == {"_20x20", "_40x40", "_48x48", "_60x60", "_80x80"}
SizeMarkers == HighResMarkers \cup LowResMarkers \cup SmallUiMarkers \cup {"_300x300"}

\* the (\d+) group of _(\d+)x\d+, read by parseInt
MarkerWidth(t) ==
  CASE t = "_960x960" -> 960
    [] t = "_800x800" -> 800
    [] t = "_1200x1200" -> 1200
    [] t = "_1600x1600" -> 1600
    [] t = "_300x300" -> 300
    [] t = "_100x100" -> 100
    [] t = "_80x80" -> 80
    [] t = "_60x60" -> 60
    [] t = "_50x50" -> 50
    [] t = "_48x48" -> 48
    [] t = "_40x40" -> 40
    [] t = "_20x20" -> 20
    [] OTHER -> 0

\* the replacement text '_960x960q80'
HighResSuffix == <<"_960x960", "q80">>

----------------------------------------------------------------------------
(* Sequence helpers *)

Range(s) == {s[i] : i \in 1..Len(s)}

Contains(s, x) == \E i \in 1..Len(s) : s[i] = x

SetAddMovesToEnd(s, x) == Append(SelectSeq(s, LAMBDA y : y # x), x)

\* Set.add on an insertion-ordered set
SetAdd(s, x) == IF Contains(s, x) THEN s ELSE Append(s, x)

RECURSIVE Dedup(_)
DedupNone(s) == s

\* Array.from(new Set(arr)): first occurrences, in order
Dedup(s) ==
  IF s = <<>> THEN <<>>
  ELSE LET r == Dedup(SubSeq(s, 1, Len(s) - 1))
       IN SetAdd(r, s[Len(s)])

Max(S) == CHOOSE x \in S : \A y \in S : y <= x
Min(S) == CHOOSE x \in S : \A y \in S : x <= y

----------------------------------------------------------------------------
(* Regular expressions of the source, over token sequences *)

\* /_960x960|_800x800|_1200x1200|_1600x1600/
HasHighRes(u) == \E i \in 1..Len(u) : u[i] \in HighResMarkers

\* /_50x50|_100x100|_80x80/
HasLowRes(u) == \E i \in 1..Len(u) : u[i] \in LowResMarkers

\* /_\d+x\d+/
HasSize(u) == \E i \in 1..Len(u) : u[i] \in SizeMarkers

\* /_\d+x\d+.*_\d+x\d+/
HasTwoSizes(u) ==
  \E i, j \in 1..Len(u) : i < j /\ u[i] \in SizeMarkers /\ u[j] \in SizeMarkers

\* url.includes('alicdn.com')
IncludesAlicdn(u) == \E i \in 1..Len(u) : u[i] \in AlicdnHosts

\* /sc\d+\.alicdn\.com/i
HasScHost(u) == \E i \in 1..Len(u) : u[i] \in ScHosts

\* url.includes('alicdn.com/kf/')
IncludesAlicdnKf(u) ==
  \E i \in 1..(Len(u) - 1) : u[i] \in AlicdnHosts /\ u[i + 1] = "/kf/"

\* url.includes('/kf/')
IncludesKf(u) == \E i \in 1..Len(u) : u[i] = "/kf/"

\* /\.(jpg|jpeg|png|webp|gif)$/i
EndsWithExt(u) == Len(u) > 0 /\ u[Len(u)] \in ExtTokens

\* /\.(jpg|jpeg|png|webp|gif)(\?|$)/i
HasImageExt(u) ==
  \E i \in 1..Len(u) :
    u[i] \in ExtTokens /\ (i = Len(u) \/ u[i + 1] = "?")

\* /imgextra/i, /icon/i, /flag/i, /logo/i
HasUiWord(u) ==
  \E i \in 1..Len(u) : u[i] \in {"/imgextra/", "icon", "flag", "logo"}

\* /_20x20|_40x40|_48x48|_60x60|_80x80/i
HasSmallUi(u) == \E i \in 1..Len(u) : u[i] \in SmallUiMarkers

\* /tps-\d+-\d+\.(?:png|svg)/i
HasTpsGraphic(u) ==
  \E i \in 1..(Len(u) - 1) : u[i] = "tps-1-1" /\ u[i + 1] = ".png"

\* /thumbnail/i
HasThumbnail(u) == \E i \in 1..Len(u) : u[i] = "thumbnail"

\* the parts of url.split('?')
FirstQ(u) ==
  IF Contains(u, "?") THEN Min({i \in 1..Len(u) : u[i] = "?"}) ELSE Len(u) + 1

\* urlParts[0]
BaseUrl(u) == SubSeq(u, 1, FirstQ(u) - 1)

\* urlParts[1] ? '?' + urlParts[1] : ''
QueryString(u) ==
  LET rest == SubSeq(u, FirstQ(u) + 1, Len(u))
      part1 == SubSeq(rest, 1, FirstQ(rest) - 1)
  IN IF part1 = <<>> THEN <<>> ELSE <<"?">> \o part1

ReplaceLowResNoQuality(b) ==
  [i \in 1..Len(b) |-> IF b[i] \in LowResMarkers THEN "_960x960" ELSE b[i]]

RECURSIVE ReplaceLowRes(_)
\* baseUrl.replace(/_50x50|_100x100|_80x80/g, '_960x960q80')
ReplaceLowRes(b) ==
  IF b = <<>> THEN <<>>
  ELSE (IF Head(b) \in LowResMarkers THEN HighResSuffix ELSE <<Head(b)>>)
       \o ReplaceLowRes(Tail(b))

\* baseUrl.replace(/\.(jpg|jpeg|png|webp|gif)$/i, '_960x960q80.$1')
AppendHighRes(b) ==
  IF EndsWithExt(b)
  THEN SubSeq(b, 1, Len(b) - 1) \o HighResSuffix \o <<b[Len(b)]>>
  ELSE b

----------------------------------------------------------------------------
(* ImageUrlExtractor *)

NoPid == "null"

\* index of the last image extension at or after position lo (0: none);
\* the greedy [^"'\s]+ before \.(jpg|...) backtracks to the last one
LastExt(w, lo) ==
  LET E == {i \in lo..Len(w) : w[i] \in ExtTokens}
  IN IF E = {} THEN 0 ELSE Max(E)

\* ...\.(ext)(?:\?[^"'\s]*)? : the match ends with the extension, or runs on
\* to the end of the word when a "?" follows the extension
WithQuery(w, e) ==
  IF e < Len(w) /\ w[e + 1] = "?" THEN w ELSE SubSeq(w, 1, e)

\* the match of imagePatterns[p] in word w, <<>> when there is none
PatternMatch(p, w) ==
  IF w = <<>> THEN <<>>
  ELSE
  CASE p = 1 ->
         \* https?:\/\/s\.alicdn\.com\/@sc\d+\/kf\/[^"'\s]+\.(ext)(\?...)?
         IF /\ Len(w) >= 6
            /\ w[1] = Scheme /\ w[2] = "s.alicdn.com"
            /\ w[3] = "/@sc04" /\ w[4] = "/kf/"
            /\ LastExt(w, 6) > 0
         THEN WithQuery(w, LastExt(w, 6)) ELSE <<>>
    [] p = 2 ->
         \* https?:\/\/sc\d+\.alicdn\.com\/kf\/[^"'\s]+\.(ext)(\?...)?
         IF /\ Len(w) >= 5
            /\ w[1] = Scheme /\ w[2] \in ScHosts /\ w[3] = "/kf/"
            /\ LastExt(w, 5) > 0
         THEN WithQuery(w, LastExt(w, 5)) ELSE <<>>
    [] p = 3 ->
         \* https?:\/\/[^"'\s]*\.alicdn\.com[^"'\s]+\.(ext)(\?...)?
         LET H == {i \in 2..Len(w) : w[i] \in AlicdnHosts}
         IN IF w[1] = Scheme /\ H # {} /\ LastExt(w, Min(H) + 2) > 0
            THEN WithQuery(w, LastExt(w, Min(H) + 2)) ELSE <<>>
    [] p = 4 ->
         \* https?:\/\/[^"'\s]+_(?:960x960|...)[^"'\s]*\.(ext)
         LET M == {i \in 3..Len(w) : w[i] \in HighResMarkers}
         IN IF w[1] = Scheme /\ M # {} /\ LastExt(w, Min(M) + 1) > 0
            THEN SubSeq(w, 1, LastExt(w, Min(M) + 1)) ELSE <<>>
    [] p = 5 ->
         \* https?:\/\/[^"'\s]+\.(ext)(\?...)?
         IF w[1] = Scheme /\ LastExt(w, 3) > 0
         THEN WithQuery(w, LastExt(w, 3)) ELSE <<>>
    [] OTHER ->
         \* data:image\/[^;]+;base64,[A-Za-z0-9+/=]+
         IF Len(w) >= 2 /\ w[1] = DataScheme THEN SubSeq(w, 1, 2) ELSE <<>>

NumPatterns == 6

RECURSIVE MatchAll(_, _)
\* bodyString.match(pattern): the matches of one pattern, in body order
MatchAll(body, p) ==
  IF body = <<>> THEN <<>>
  ELSE (IF PatternMatch(p, Head(body)) = <<>> THEN <<>>
        ELSE <<PatternMatch(p, Head(body))>>)
       \o MatchAll(Tail(body), p)

RECURSIVE AllMatches(_, _)
\* imagePatterns.forEach: the matches of patterns p..6, pattern by pattern
AllMatches(body, p) ==
  IF p > NumPatterns THEN <<>>
  ELSE MatchAll(body, p) \o AllMatches(body, p + 1)

\* match.replace(/['"]/g, '').trim()
CleanUrl(m) == SelectSeq(m, LAMBDA t : t # Quote)

\* cleanUrl.startsWith('data:')
IsDataUri(u) == Len(u) > 0 /\ u[1] = DataScheme

\* excludePatterns.some(exclude => exclude.test(cleanUrl))
Excluded(u) == HasUiWord(u) \/ HasSmallUi(u) \/ HasTpsGraphic(u)

CanonicalizeAppendRegardless(u) ==
  IF HasHighRes(u) THEN u
  ELSE IF HasLowRes(u) THEN ReplaceLowRes(BaseUrl(u)) \o QueryString(u)
  ELSE IF IncludesAlicdn(u)
       THEN IF EndsWithExt(BaseUrl(u))
            THEN AppendHighRes(BaseUrl(u)) \o QueryString(u)
            ELSE u
  ELSE u

CanonicalizeLowResFirst(u) ==
  IF HasLowRes(u) THEN ReplaceLowRes(BaseUrl(u)) \o QueryString(u)
  ELSE IF HasHighRes(u) THEN u
  ELSE IF IncludesAlicdn(u) /\ ~HasSize(u)
       THEN IF EndsWithExt(BaseUrl(u)) /\ ~HasSize(BaseUrl(u))
            THEN AppendHighRes(BaseUrl(u)) \o QueryString(u)
            ELSE u
  ELSE u

\* the upgrade of a thumbnail to its high-resolution version
Canonicalize(u) ==
  IF HasHighRes(u) THEN u
  ELSE IF HasLowRes(u) THEN ReplaceLowRes(BaseUrl(u)) \o QueryString(u)
  ELSE IF IncludesAlicdn(u) /\ ~HasSize(u)
       THEN IF EndsWithExt(BaseUrl(u)) /\ ~HasSize(BaseUrl(u))
            THEN AppendHighRes(BaseUrl(u)) \o QueryString(u)
            ELSE u
  ELSE u

RECURSIVE Captured(_)
\* the URLs one extractFromResponse call adds, in the order it adds them
Captured(ms) ==
  IF ms = <<>> THEN <<>>
  ELSE LET c == CleanUrl(Head(ms))
       IN (IF IsDataUri(c) \/ Excluded(c) THEN <<>> ELSE <<Canonicalize(c)>>)
          \o Captured(Tail(ms))

RECURSIVE AddAll(_, _)
\* Set.add of each element of us, in order
AddAll(set, us) ==
  IF us = <<>> THEN set ELSE AddAll(SetAdd(set, Head(us)), Tail(us))

\* if (productId): null, undefined and '' are falsy
Truthy(productId) == productId # NoPid /\ productId # ""

ExtractImageUrlsKeyedOnly(all, body) == all

\* extractFromResponse(url, responseBody, productId): the store after the call
ExtractImageUrls(all, body) == AddAll(all, Captured(AllMatches(body, 1)))

ExtractProductImages(byProduct, body, productId) ==
  LET us == Captured(AllMatches(body, 1))
  IN IF Truthy(productId) /\ us # <<>>
     THEN [k \in DOMAIN byProduct \cup {productId} |->
             IF k = productId
             THEN AddAll(IF k \in DOMAIN byProduct THEN byProduct[k] ELSE <<>>, us)
             ELSE byProduct[k]]
     ELSE byProduct

\* the value extractFromResponse returns
ExtractFoundNever(body) == FALSE

\* the value extractFromResponse returns: found
ExtractFound(body) == Captured(AllMatches(body, 1)) # <<>>

\* JSON.parse('null'): the falsy jsonData of extractFromJSON
NullJson == <<<<"null">>>>

\* getProductUrls(productId)
GetProductUrls(byProduct, productId) ==
  IF productId \in DOMAIN byProduct THEN byProduct[productId] ELSE <<>>

----------------------------------------------------------------------------
(* The response handler's capture of a direct image request *)

\* skipPatterns.some(pattern => pattern.test(url))
ShouldSkip(u) ==
  HasLowRes(u) \/ HasThumbnail(u) \/ HasUiWord(u) \/ HasTpsGraphic(u)

\* the upgrade of a directly requested image URL
UpgradeDirect(u) ==
  IF HasHighRes(u) THEN u
  ELSE IF HasLowRes(u) THEN ReplaceLowRes(BaseUrl(u)) \o QueryString(u)
  ELSE IF ~HasSize(u)
       THEN IF EndsWithExt(BaseUrl(u)) /\ ~HasSize(BaseUrl(u))
            THEN AppendHighRes(BaseUrl(u)) \o QueryString(u)
            ELSE u
  ELSE u

DirectImageIfStoreEmpty(all, u) ==
  IF all = <<>> /\ HasImageExt(u) /\ ~ShouldSkip(u) /\ IncludesAlicdn(u)
  THEN <<UpgradeDirect(u)>>
  ELSE all

\* imageUrls after the "direct image request" part of the handler
DirectImage(all, u) ==
  IF HasImageExt(u) /\ ~ShouldSkip(u) /\ IncludesAlicdn(u)
  THEN SetAdd(all, UpgradeDirect(u))
  ELSE all

----------------------------------------------------------------------------
(* URL selection of scrapeProductPage *)

\* the skipPatterns of the filter
SkipUi(u) == HasUiWord(u) \/ HasSmallUi(u) \/ HasTpsGraphic(u)

IsProductImageAnyCdn(u) == IncludesAlicdn(u) /\ ~SkipUi(u)

\* the filter callback: a product image of the CDN
IsProductImage(u) ==
  /\ IncludesAlicdn(u)
  /\ ~SkipUi(u)
  /\ \/ HasScHost(u) \/ HasHighRes(u)
     \/ (IncludesAlicdnKf(u) /\ ~HasTwoSizes(u))
     \/ HasScHost(u)

\* parseInt(a.match(/_(\d+)x\d+/)?.[1] || '0')
SizeOf(u) ==
  LET M == {i \in 1..Len(u) : u[i] \in SizeMarkers}
  IN IF M = {} THEN 0 ELSE MarkerWidth(u[Min(M)])

CompareSizeOnly(a, b) == SizeOf(b) - SizeOf(a)

\* the comparator of the sort: negative when a sorts before b
Compare(a, b) ==
  LET sizeDiff == SizeOf(b) - SizeOf(a)
  IN IF sizeDiff = 0
     THEN (IF IncludesKf(b) THEN 1 ELSE 0) - (IF IncludesKf(a) THEN 1 ELSE 0)
     ELSE sizeDiff

RECURSIVE InsertSorted(_, _)
\* x placed after every element that does not sort after it (stable)
InsertSorted(s, x) ==
  IF s = <<>> THEN <<x>>
  ELSE IF Compare(Head(s), x) <= 0 THEN <<Head(s)>> \o InsertSorted(Tail(s), x)
       ELSE <<x>> \o s

RECURSIVE SortUrls(_)
\* uniqueUrls.sort(comparator): Array.prototype.sort is stable
SortUrls(s) ==
  IF s = <<>> THEN <<>>
  ELSE InsertSorted(SortUrls(SubSeq(s, 1, Len(s) - 1)), s[Len(s)])

\* the ranked filter of all URLs
RankedUrls(all) == SortUrls(Dedup(SelectSeq(all, IsProductImage)))

\* the last fallback: CDN URLs that are no obvious UI element
FallbackUrls(all) ==
  SelectSeq(all, LAMBDA u : IncludesAlicdn(u) /\ ~(HasUiWord(u) \/ HasSmallUi(u)))

UseProductUrlsAlways(byProduct, productId) ==
  Len(GetProductUrls(byProduct, productId)) > 0

\* the test that guards the use of the product's own set
UseProductUrls(byProduct, productId) ==
  productId # "unknown" /\ Len(GetProductUrls(byProduct, productId)) > 0

\* imageUrls as selected by scrapeProductPage
SelectImageUrls(all, byProduct, productId) ==
  IF UseProductUrls(byProduct, productId)
  THEN GetProductUrls(byProduct, productId)
  ELSE IF Len(RankedUrls(all)) = 0 THEN FallbackUrls(all) ELSE RankedUrls(all)

----------------------------------------------------------------------------
(* ImageDownloader *)

\* new URL(url) parses
ValidUrl(u) == Len(u) >= 2 /\ u[1] = Scheme

\* urlObj.pathname: after the host, before the query
Pathname(u) == SubSeq(BaseUrl(u), 3, Len(BaseUrl(u)))

\* pathname.replace(/_\d+x\d+q?\d*\.(jpg|jpeg|png|webp|gif)$/i, '.$1')
StripSizeSuffix(p) ==
  LET n == Len(p)
  IN IF n >= 2 /\ p[n] \in ExtTokens /\ p[n - 1] \in SizeMarkers
     THEN SubSeq(p, 1, n - 2) \o <<p[n]>>
     ELSE IF n >= 3 /\ p[n] \in ExtTokens /\ p[n - 1] = "q80"
             /\ p[n - 2] \in SizeMarkers
          THEN SubSeq(p, 1, n - 3) \o <<p[n]>>
          ELSE p

\* tokens that end with "/": the directories of a path
DirTokens == {"/kf/", "/imgextra/", "/i/", "/p/", "/product-detail/"}

\* path.extname(pathname) || '.jpg': from the last "." of the base name
Extname(p) ==
  LET D == {i \in 1..Len(p) : p[i] \in DirTokens}
      from == IF D = {} THEN 1 ELSE Max(D) + 1
      E == {i \in from..Len(p) : p[i] \in ExtTokens}
  IN IF E = {} \/ (Max(E) = from /\ Max(E) = Len(p)) THEN <<".jpg">>
     ELSE SubSeq(p, Max(E), Len(p))

\* sanitizeFileName(fileName)
SanitizeFileName(name) ==
  CASE name = "" -> "unnamed"
    [] name = "Solo Booth" -> "Solo_Booth"
    [] OTHER -> name

\* the destination file of downloadImage(url, productId, productName, index)
FilePath(u, productId, productName, index) ==
  [dir |-> IF Truthy(productId) THEN SanitizeFileName(productId) ELSE "unknown",
   name |-> IF productName # "" THEN SanitizeFileName(productName) ELSE "image",
   index |-> index,
   ext |-> Extname(StripSizeSuffix(Pathname(u)))]

\* the locals of downloadAll before the call; fetched is the history of the
\* URLs requested by the call
NoDl ==
  [mode |-> "idle", i |-> 0, unique |-> <<>>, downloaded |-> <<>>,
   failed |-> <<>>, fetched |-> <<>>, productId |-> NoPid, productName |-> ""]

ExistsNever(fs, path) == FALSE

\* fs.existsSync(filePath)
Exists(fs, path) == path \in DOMAIN fs

\* seenUrls.has(imageUrl) in iteration i
Seen(d, i) == Contains(SubSeq(d.unique, 1, i), d.unique[i + 1])

\* failed.push({ url: imageUrl, error: error.message })
Failure(u, e) == [url |-> u, error |-> e]

RECURSIVE DlAdvance(_, _, _)
\* downloadAll from iteration i on, up to its next suspension: the request of
\* an item (mode "fetch"), the pacing delay after a stored or already existing
\* item (mode "pace"), or the return (mode "done")
DlAdvance(d, i, fs) ==
  IF i >= Len(d.unique) THEN [d EXCEPT !.mode = "done", !.i = i]
  ELSE LET u == d.unique[i + 1]
           path == FilePath(u, d.productId, d.productName, i)
       IN IF Seen(d, i) THEN DlAdvance(d, i + 1, fs)
          ELSE IF ~ValidUrl(u)
          THEN DlAdvance([d EXCEPT !.failed = Append(@, Failure(u, "invalid"))],
                         i + 1, fs)
          ELSE IF Exists(fs, path)
               THEN [d EXCEPT !.mode = "pace", !.i = i,
                              !.downloaded = Append(@, path)]
               ELSE [d EXCEPT !.mode = "fetch", !.i = i]

\* downloadAll(images, productId, productName) up to its first suspension
DownloadAllStart(images, productId, productName, fs) ==
  DlAdvance([NoDl EXCEPT !.unique = Dedup(images), !.productId = productId,
                         !.productName = productName], 0, fs)

----------------------------------------------------------------------------
(* Configuration and inputs *)

\* config.retryAttempts
retryAttempts == 3

\* config.retryDelay, in units of 5000 ms
retryDelay == 1

\* largest document.body.scrollHeight a page reports, in screens
MaxHeight == 2

\* number of network responses the browser delivers in a run
MaxResponses == 2

TargetA == <<Scheme, "www.alibaba.com", "/product-detail/", "Booth", "_1001", ".html">>
TargetB == <<Scheme, "www.alibaba.com", "/product-detail/", "/1002", ".html">>
TargetN == <<Scheme, "www.alibaba.com", "/product-detail/", "Booth", ".html">>

\* the arguments of scrapeMultipleProducts
BatchInputs ==
  {<<TargetA, TargetB>>, <<TargetN, TargetA>>, <<TargetB>>, <<TargetA, TargetA>>}

\* the productId that page.evaluate reads off window.location.href
ProductIdOf(url) ==
  IF \E i \in 1..(Len(url) - 1) : url[i] = "_1001" /\ url[i + 1] = ".html"
  THEN "1001"
  ELSE IF \E i \in 1..(Len(url) - 1) : url[i] = "/1002" /\ url[i + 1] = ".html"
       THEN "1002"
       ELSE NoPid

\* the productName that page.evaluate reads off the document
ProductNameOf(url) == IF url = TargetB THEN "" ELSE "Solo Booth"

WLow == <<Scheme, "sc04.alicdn.com", "/kf/", "H1", ".jpg", "_50x50", ".jpg">>
WHigh == <<Scheme, "sc04.alicdn.com", "/kf/", "H1", ".jpg", "_960x960", "q80", ".jpg">>
WIcon == <<Scheme, "img.alicdn.com", "/imgextra/", "i1", ".png">>
WOther == <<Scheme, "cdn.example.com", "/p/", "x", ".jpg">>
WMid == <<Scheme, "img.alicdn.com", "/i/", "b", "_300x300", ".jpg">>
WQuery == <<Scheme, "s.alicdn.com", "/@sc04", "/kf/", "H2", ".png", "?", "t=1">>
WSmall == <<Scheme, "img.alicdn.com", "/i/", "b", "_40x40", ".jpg">>
ApiUrl == <<Scheme, "www.alibaba.com", "/event/app/productDetail/", "desc.htm">>

\* the network responses a page can produce.  api: the response passes the
\* JSON/XHR test of the handler; text: response.text() resolves or throws;
\* json: JSON.parse succeeds; pid: the product id the handler derives from the
\* response URL or the JSON ("page": the id of the page that produced it)
RespPage ==
  [api |-> TRUE, text |-> "ok", json |-> TRUE, pid |-> "page",
   url |-> ApiUrl, body |-> <<WLow, WIcon>>]
RespUnknown ==
  [api |-> TRUE, text |-> "ok", json |-> TRUE, pid |-> "unknown",
   url |-> ApiUrl, body |-> <<WQuery>>]
RespText ==
  [api |-> TRUE, text |-> "ok", json |-> FALSE, pid |-> NoPid,
   url |-> ApiUrl, body |-> <<WMid, WOther>>]
RespThrows ==
  [api |-> TRUE, text |-> "throws", json |-> FALSE, pid |-> NoPid,
   url |-> WMid, body |-> <<>>]
RespImage ==
  [api |-> FALSE, text |-> "ok", json |-> FALSE, pid |-> NoPid,
   url |-> WHigh, body |-> <<>>]
RespSmall ==
  [api |-> FALSE, text |-> "ok", json |-> FALSE, pid |-> NoPid,
   url |-> WSmall, body |-> <<>>]

ResponsePool == {RespPage, RespUnknown, RespText, RespThrows, RespImage}

\* the phases of an attempt in which an operation of the browser can throw
FailPhases ==
  {"Navigating", "ExtractingInfo", "SimulatingPresence", "LazyLoadScrolling"}

\* the runs explored: the arguments of scrapeMultipleProducts, the responses
\* the pages produce (which, and how many), and the phases in which the
\* browser throws
Scenarios ==
  { [inputs |-> BatchInputs, respLimit |-> 0, pool |-> {},
     mayFail |-> FailPhases],
    [inputs |-> {<<TargetN>>, <<TargetB>>}, respLimit |-> MaxResponses,
     pool |-> ResponsePool, mayFail |-> {}],
    [inputs |-> {<<TargetA, TargetB>>}, respLimit |-> 1,
     pool |-> {RespPage}, mayFail |-> {"Navigating"}],
    [inputs |-> {<<TargetN>>}, respLimit |-> 1,
     pool |-> {RespSmall}, mayFail |-> {}] }

----------------------------------------------------------------------------
(* State *)

VARIABLES
  env,             \* the scenario: responses and failures of the browser
  productUrls,     \* the argument of scrapeMultipleProducts
  idx,             \* position of the for loop in productUrls (from 1)
  bpc,             \* scrapeMultipleProducts: "running", "delay", "done"
  results,         \* its results array
  pc,              \* where scrapeProductPage is suspended
  retryCount,      \* its retryCount argument: depth of the recursion
  waitUntil,       \* the wait condition of the navigation in progress
  productInfo,     \* its productInfo
  previousHeight,  \* its previousHeight
  currentHeight,   \* its currentHeight
  selectedUrls,    \* its imageUrls
  dl,              \* downloadAll: position, uniqueImages, downloaded, failed
  files,           \* the files of the download directory: path -> content
  imageUrls,       \* ImageUrlExtractor.imageUrls
  productImages,   \* ImageUrlExtractor.productImages
  page,            \* the address the browser page was last sent to
  respCount,       \* responses delivered so far
  trace,           \* history: the phases of the attempt in progress
  measurements,    \* history: the page heights measured in this attempt
  waits,           \* history: the retry delays of the call in progress
  attempts,        \* history: attempts started by the call in progress
  stamps,          \* history: for each stored URL, the target during whose
                   \* processing it was first captured (0: between targets)
  call             \* the last call made to the extractor from outside the
                   \* scraper: method, arguments, store before, value returned

batchVars == <<env, call, productUrls, idx, bpc, results>>
attemptVars ==
  <<pc, retryCount, waitUntil, productInfo, previousHeight, currentHeight,
    selectedUrls>>
storeVars == <<imageUrls, productImages, stamps>>
netVars == <<page, respCount>>
vars ==
  <<env, call, productUrls, idx, bpc, results, pc, retryCount, waitUntil, productInfo,
    previousHeight, currentHeight, selectedUrls, dl, files, imageUrls,
    productImages, page, respCount, trace, measurements, waits,
    attempts, stamps>>

NoInfo == [productId |-> NoPid, productName |-> ""]

EmptyMap == [k \in {} |-> <<>>]

\* no call has been made to the extractor from outside the scraper
NoCall ==
  [method |-> "none", body |-> <<>>, productId |-> NoPid, all |-> <<>>,
   byProduct |-> EmptyMap, returned |-> FALSE, seq |-> 0]

\* the state in which an attempt starts: page.goto(productUrl, networkidle)
BeginAttempt(url, rc, n) ==
  /\ pc' = "Navigating"
  /\ retryCount' = rc
  /\ waitUntil' = "networkidle"
  /\ productInfo' = NoInfo
  /\ previousHeight' = 0
  /\ currentHeight' = 0
  /\ selectedUrls' = <<>>
  /\ dl' = NoDl
  /\ page' = url
  /\ trace' = <<"Navigating">>
  /\ measurements' = <<>>
  /\ attempts' = n

Init ==
  /\ \E sc \in Scenarios :
       /\ productUrls \in sc.inputs
       /\ env = [respLimit |-> sc.respLimit, pool |-> sc.pool,
                 mayFail |-> sc.mayFail]
  /\ idx = 1
  /\ bpc = "running"
  /\ results = <<>>
  /\ pc = "Navigating"
  /\ retryCount = 0
  /\ waitUntil = "networkidle"
  /\ productInfo = NoInfo
  /\ previousHeight = 0
  /\ currentHeight = 0
  /\ selectedUrls = <<>>
  /\ dl = NoDl
  /\ files = EmptyMap
  /\ imageUrls = <<>>
  /\ productImages = EmptyMap
  /\ page = productUrls[1]
  /\ respCount = 0
  /\ trace = <<"Navigating">>
  /\ measurements = <<>>
  /\ waits = <<>>
  /\ attempts = 1
  /\ stamps = {}
  /\ call = NoCall

----------------------------------------------------------------------------
(* scrapeMultipleProducts and the retry of scrapeProductPage *)

RandomDelayPastMax(min, max) == min..(max + 1)

\* randomDelay(min, max): the delays it can choose
RandomDelay(min, max) == min..max

ShouldRetryOnceMore(rc) == rc <= retryAttempts

\* the test of the catch block: retryCount < this.config.retryAttempts
ShouldRetry(rc) == rc < retryAttempts

FrameReturnDropped(r) == [r EXCEPT !.success = ~r.success]

\* return this.scrapeProductPage(productUrl, retryCount + 1): what a frame of
\* the recursion hands up when the inner call returns r
FrameReturn(r) == r

FrameThrowOwn(e) == [e EXCEPT !.attempt = e.attempt - 1]

\* what a frame hands up when the inner call, made in its catch block, throws e
FrameThrow(e) == e

RECURSIVE ReturnThrough(_, _)
\* the value the outermost call returns when the frame at depth rc returns r
ReturnThrough(r, rc) ==
  IF rc = 0 THEN r ELSE ReturnThrough(FrameReturn(r), rc - 1)

RECURSIVE ThrowThrough(_, _)
\* the error the outermost call throws when the frame at depth rc throws e
ThrowThrough(e, rc) ==
  IF rc = 0 THEN e ELSE ThrowThrough(FrameThrow(e), rc - 1)

\* the entry pushed by the catch block of scrapeMultipleProducts
FailureEntry(url, e) == [success |-> FALSE, url |-> url, error |-> e]

\* the try block of scrapeMultipleProducts after the call returned r:
\* push, clear, delay
CallReturns(r) ==
  /\ results' = Append(results, r)
  /\ imageUrls' = <<>>
  /\ productImages' = EmptyMap
  /\ stamps' = {}
  /\ bpc' = "delay"
  /\ UNCHANGED <<env, call, productUrls, idx>>

CallThrowsAbort(e) ==
  /\ results' = Append(results, FailureEntry(productUrls[idx], e))
  /\ bpc' = "done"
  /\ pc' = "Failed"
  /\ trace' = Append(trace, "Failed")
  /\ UNCHANGED <<env, call, productUrls, idx, storeVars, retryCount, waitUntil,
                 productInfo, previousHeight, currentHeight, selectedUrls, dl,
                 page, measurements, waits, attempts>>

\* the catch block of scrapeMultipleProducts after the call threw e, and the
\* next iteration of the loop
CallThrows(e) ==
  /\ results' = Append(results, FailureEntry(productUrls[idx], e))
  /\ UNCHANGED <<env, call, productUrls, storeVars>>
  /\ IF idx + 1 <= Len(productUrls)
     THEN /\ idx' = idx + 1
          /\ bpc' = "running"
          /\ waits' = <<>>
          /\ BeginAttempt(productUrls[idx + 1], 0, 1)
     ELSE /\ idx' = idx
          /\ bpc' = "done"
          /\ pc' = "Failed"
          /\ trace' = Append(trace, "Failed")
          /\ UNCHANGED <<retryCount, waitUntil, productInfo, previousHeight,
                         currentHeight, selectedUrls, dl, page, measurements,
                         waits, attempts>>

\* the error an attempt raises in phase at
Err(at) == [attempt |-> retryCount + 1, at |-> at]

\* the catch block of scrapeProductPage
Raise(e) ==
  IF ShouldRetry(retryCount)
  THEN /\ pc' = "Retrying"
       /\ trace' = Append(trace, "Retrying")
       /\ UNCHANGED <<batchVars, storeVars, retryCount, waitUntil, productInfo,
                      previousHeight, currentHeight, selectedUrls, dl, page,
                      measurements, waits, attempts>>
  ELSE CallThrows(ThrowThrough(e, retryCount))

\* the retry delay has elapsed: the recursive call starts the next attempt
RetryWaitDone ==
  /\ pc = "Retrying"
  /\ \E d \in RandomDelay(retryDelay, retryDelay * 2) :
       waits' = Append(waits, [before |-> attempts + 1, delay |-> d])
  /\ BeginAttempt(productUrls[idx], retryCount + 1, attempts + 1)
  /\ UNCHANGED <<batchVars, storeVars, files, respCount>>

\* the delay between two products has elapsed: next iteration of the loop
BetweenDelayDone ==
  /\ bpc = "delay"
  /\ IF idx + 1 <= Len(productUrls)
     THEN /\ idx' = idx + 1
          /\ bpc' = "running"
          /\ waits' = <<>>
          /\ BeginAttempt(productUrls[idx + 1], 0, 1)
     ELSE /\ bpc' = "done"
          /\ UNCHANGED <<idx, attemptVars, dl, page, trace, measurements,
                         waits, attempts>>
  /\ UNCHANGED <<env, call, productUrls, results, storeVars, files, respCount>>

----------------------------------------------------------------------------
(* scrapeProductPage: one attempt *)

Advance(phase) == pc' = phase /\ trace' = Append(trace, phase)

\* page.goto with waitUntil 'networkidle' resolves
GotoStrictOk ==
  /\ pc = "Navigating" /\ waitUntil = "networkidle"
  /\ Advance("ExtractingInfo")
  /\ UNCHANGED <<batchVars, storeVars, netVars, retryCount, waitUntil,
                 productInfo, previousHeight, currentHeight, selectedUrls,
                 dl, files, measurements, waits, attempts>>

GotoStrictFailRaises ==
  /\ pc = "Navigating" /\ waitUntil = "networkidle"
  /\ "Navigating" \in env.mayFail
  /\ Raise(Err("Navigating"))
  /\ UNCHANGED <<files, respCount>>

\* it rejects: page.goto with waitUntil 'domcontentloaded'
GotoStrictFail ==
  /\ pc = "Navigating" /\ waitUntil = "networkidle"
  /\ "Navigating" \in env.mayFail
  /\ waitUntil' = "domcontentloaded"
  /\ UNCHANGED <<batchVars, storeVars, netVars, pc, retryCount, productInfo,
                 previousHeight, currentHeight, selectedUrls, dl, files,
                 trace, measurements, waits, attempts>>

GotoLooseOk ==
  /\ pc = "Navigating" /\ waitUntil = "domcontentloaded"
  /\ Advance("ExtractingInfo")
  /\ UNCHANGED <<batchVars, storeVars, netVars, retryCount, waitUntil,
                 productInfo, previousHeight, currentHeight, selectedUrls,
                 dl, files, measurements, waits, attempts>>

GotoLooseFail ==
  /\ pc = "Navigating" /\ waitUntil = "domcontentloaded"
  /\ "Navigating" \in env.mayFail
  /\ Raise(Err("Navigating"))
  /\ UNCHANGED <<files, respCount>>

\* randomDelay(2000, 3000), then page.evaluate returns productInfo
ExtractInfoOk ==
  /\ pc = "ExtractingInfo"
  /\ productInfo' = [productId |-> ProductIdOf(page),
                     productName |-> ProductNameOf(page)]
  /\ Advance("SimulatingPresence")
  /\ UNCHANGED <<batchVars, storeVars, netVars, retryCount, waitUntil,
                 previousHeight, currentHeight, selectedUrls, dl, files,
                 measurements, waits, attempts>>

ExtractInfoFail ==
  /\ pc = "ExtractingInfo"
  /\ "ExtractingInfo" \in env.mayFail
  /\ Raise(Err("ExtractingInfo"))
  /\ UNCHANGED <<files, respCount>>

\* randomMouseMove and simulateReading
SimulateOk ==
  /\ pc = "SimulatingPresence"
  /\ Advance("LazyLoadScrolling")
  /\ UNCHANGED <<batchVars, storeVars, netVars, retryCount, waitUntil,
                 productInfo, previousHeight, currentHeight, selectedUrls,
                 dl, files, measurements, waits, attempts>>

SimulateFail ==
  /\ pc = "SimulatingPresence"
  /\ "SimulatingPresence" \in env.mayFail
  /\ Raise(Err("SimulatingPresence"))
  /\ UNCHANGED <<files, respCount>>

LoopContinuesWhileDifferent(cur, prev) == cur # prev

\* the loop test: while (currentHeight > previousHeight)
LoopContinues(cur, prev) == cur > prev

\* let currentHeight = await page.evaluate(scrollHeight), before the loop
MeasureFirst ==
  /\ pc = "LazyLoadScrolling" /\ measurements = <<>>
  /\ \E h \in 0..MaxHeight :
       /\ currentHeight' = h
       /\ measurements' = <<h>>
       /\ IF LoopContinues(h, previousHeight)
          THEN UNCHANGED <<pc, trace>>
          ELSE Advance("Settling")
  /\ UNCHANGED <<batchVars, storeVars, netVars, retryCount, waitUntil,
                 productInfo, previousHeight, selectedUrls, dl, files, waits,
                 attempts>>

ScrollRoundWithoutMeasuring ==
  /\ pc = "LazyLoadScrolling" /\ measurements # <<>>
  /\ UNCHANGED vars

\* one round of the loop: scroll, measure again, hover over the galleries
ScrollRound ==
  /\ pc = "LazyLoadScrolling" /\ measurements # <<>>
  /\ previousHeight' = currentHeight
  /\ \E h \in 0..MaxHeight :
       /\ currentHeight' = h
       /\ measurements' = Append(measurements, h)
       /\ IF LoopContinues(h, currentHeight)
          THEN UNCHANGED <<pc, trace>>
          ELSE Advance("Settling")
  /\ UNCHANGED <<batchVars, storeVars, netVars, retryCount, waitUntil,
                 productInfo, selectedUrls, dl, files, waits, attempts>>

\* page.evaluate throws while measuring or scrolling
ScrollFail ==
  /\ pc = "LazyLoadScrolling"
  /\ "LazyLoadScrolling" \in env.mayFail
  /\ Raise(Err("LazyLoadScrolling"))
  /\ UNCHANGED <<files, respCount>>

\* the first timer (3000 ms) of the settle wait has fired
SettleFirst ==
  /\ pc = "Settling"
  /\ pc' = "SettlingMore"
  /\ UNCHANGED <<batchVars, storeVars, netVars, retryCount, waitUntil,
                 productInfo, previousHeight, currentHeight, selectedUrls,
                 dl, files, trace, measurements, waits, attempts>>


\* productInfo.productId || 'unknown'
ProductIdOr(info) == IF Truthy(info.productId) THEN info.productId ELSE "unknown"

\* productInfo.productName || 'product'
ProductNameOr(info) == IF info.productName # "" THEN info.productName ELSE "product"

EmptyResultAsSuccess == [success |-> TRUE, images |-> <<>>]

\* the result object of an attempt that found no image
EmptyResult == [success |-> FALSE, images |-> <<>>]

SuccessResultIfAnyImage(d, found) ==
  [success |-> d.downloaded # <<>>, productId |-> d.productId,
   productName |-> d.productName, images |-> d.downloaded, totalFound |-> found]

SuccessResultCountsStore(d, found) ==
  [success |-> TRUE, productId |-> d.productId, productName |-> d.productName,
   images |-> d.downloaded, totalFound |-> Len(imageUrls)]

\* the result object of an attempt whose downloadAll returned
SuccessResult(d, found) ==
  [success |-> TRUE, productId |-> d.productId, productName |-> d.productName,
   images |-> d.downloaded, totalFound |-> found]

SettleElapsedEarly == pc \in {"Settling", "SettlingMore"}

\* both timers of the settle wait (3000 ms, then 2000 ms) have fired
SettleElapsed == pc = "SettlingMore"

\* the second timer (2000 ms) has fired: the store is read, the URLs are
\* selected, and downloadAll is called unless the selection is empty
SettleDone ==
  /\ SettleElapsed
  /\ LET sel == SelectImageUrls(imageUrls, productImages, ProductIdOr(productInfo))
         st == DownloadAllStart(sel, ProductIdOr(productInfo),
                                ProductNameOr(productInfo), files)
     IN /\ selectedUrls' = sel
        /\ IF Len(sel) = 0
           THEN /\ pc' = "Done"
                /\ trace' = trace \o <<"SelectingUrls", "Done">>
                /\ dl' = dl
                /\ CallReturns(ReturnThrough(EmptyResult, retryCount))
           ELSE IF st.mode = "done"
                THEN /\ pc' = "Done"
                     /\ trace' = trace \o <<"SelectingUrls", "Retrieving", "Done">>
                     /\ dl' = st
                     /\ CallReturns(ReturnThrough(SuccessResult(st, Len(sel)),
                                                  retryCount))
                ELSE /\ pc' = "Retrieving"
                     /\ trace' = trace \o <<"SelectingUrls", "Retrieving">>
                     /\ dl' = st
                     /\ UNCHANGED <<batchVars, storeVars>>
  /\ UNCHANGED <<netVars, retryCount, waitUntil, productInfo, previousHeight,
                 currentHeight, files, measurements, waits, attempts>>

\* downloadAll goes on to its next suspension, or returns to scrapeProductPage,
\* which returns its result to scrapeMultipleProducts
DlContinue(st) ==
  /\ dl' = st
  /\ IF st.mode = "done"
     THEN /\ pc' = "Done"
          /\ trace' = Append(trace, "Done")
          /\ CallReturns(ReturnThrough(SuccessResult(st, Len(selectedUrls)),
                                       retryCount))
     ELSE UNCHANGED <<batchVars, storeVars, pc, trace>>
  /\ UNCHANGED <<netVars, retryCount, waitUntil, productInfo, previousHeight,
                 currentHeight, selectedUrls, measurements, waits, attempts>>

\* the content of a file whose stream has not finished
Partial == <<"partial">>

\* the files after content was written to path
WriteFile(fs, path, content) ==
  [f \in DOMAIN fs \cup {path} |-> IF f = path THEN content ELSE fs[f]]

\* if (fs.existsSync(filePath)) fs.unlinkSync(filePath)
Unlink(fs, path) == [f \in DOMAIN fs \ {path} |-> fs[f]]

\* the item downloadAll is suspended on, and its destination
CurrentUrl == dl.unique[dl.i + 1]
CurrentPath == FilePath(CurrentUrl, dl.productId, dl.productName, dl.i)

\* downloadImage: axios resolves with the response stream, createWriteStream
\* opens the file and the stream is piped into it
FetchOk ==
  /\ pc = "Retrieving" /\ dl.mode = "fetch"
  /\ files' = WriteFile(files, CurrentPath, Partial)
  /\ DlContinue([dl EXCEPT !.mode = "stream",
                           !.fetched = Append(@, CurrentUrl)])

FetchFailRaises ==
  /\ pc = "Retrieving" /\ dl.mode = "fetch"
  /\ Raise(Err("Retrieving"))
  /\ UNCHANGED <<files, respCount>>

\* downloadImage: the request fails; the error is rethrown to downloadAll
FetchFail ==
  /\ pc = "Retrieving" /\ dl.mode = "fetch"
  /\ files' = files
  /\ DlContinue(DlAdvance([dl EXCEPT !.failed = Append(@, Failure(CurrentUrl, "request")),
                                     !.fetched = Append(@, CurrentUrl)],
                          dl.i + 1, files))

StreamFinishNotAwaited ==
  /\ pc = "Retrieving" /\ dl.mode = "stream"
  /\ files' = files
  /\ DlContinue([dl EXCEPT !.mode = "pace",
                           !.downloaded = Append(@, CurrentPath)])

\* writer 'finish': the file is complete, the promise resolves with filePath
StreamFinish ==
  /\ pc = "Retrieving" /\ dl.mode = "stream"
  /\ files' = WriteFile(files, CurrentPath, CurrentUrl)
  /\ DlContinue([dl EXCEPT !.mode = "pace",
                           !.downloaded = Append(@, CurrentPath)])

StreamErrorStops ==
  /\ pc = "Retrieving" /\ dl.mode = "stream"
  /\ files' = Unlink(files, CurrentPath)
  /\ DlContinue([dl EXCEPT !.failed = Append(@, Failure(CurrentUrl, "stream")),
                           !.mode = "done", !.i = dl.i + 1])

StreamErrorKeepsFile ==
  /\ pc = "Retrieving" /\ dl.mode = "stream"
  /\ files' = files
  /\ DlContinue(DlAdvance([dl EXCEPT !.failed = Append(@, Failure(CurrentUrl, "stream"))],
                          dl.i + 1, files))

\* writer 'error' or response.data 'error': the partial file is deleted and
\* the promise rejects
StreamError ==
  /\ pc = "Retrieving" /\ dl.mode = "stream"
  /\ files' = Unlink(files, CurrentPath)
  /\ DlContinue(DlAdvance([dl EXCEPT !.failed = Append(@, Failure(CurrentUrl, "stream"))],
                          dl.i + 1, Unlink(files, CurrentPath)))

\* randomDelay(500, 1000) after a stored item has elapsed
Pace ==
  /\ pc = "Retrieving" /\ dl.mode = "pace"
  /\ files' = files
  /\ DlContinue(DlAdvance(dl, dl.i + 1, files))

----------------------------------------------------------------------------
(* The response handler of setupNetworkInterception *)

\* the product id the handler derives from the response
HandlerProductId(r, url) == IF r.pid = "page" THEN ProductIdOf(url) ELSE r.pid

\* extractFromJSON(jsonData, productId): the store after the call
ExtractFromJSON(all, byProduct, body, productId) ==
  IF body = NullJson
  THEN [all |-> all, byProduct |-> byProduct]
  ELSE [all |-> ExtractImageUrls(all, body),
        byProduct |-> ExtractProductImages(byProduct, body, productId)]

\* the store after the handler of response h has run from response.text() on
HandlerStore(h, all, byProduct) ==
  IF h.text = "throws"
  THEN [all |-> DirectImage(all, h.url), byProduct |-> byProduct]
  ELSE IF ~h.json
       THEN [all |-> ExtractImageUrls(all, h.body), byProduct |-> byProduct]
       ELSE LET st == ExtractFromJSON(all, byProduct, h.body, h.pid)
            IN [all |-> DirectImage(st.all, h.url), byProduct |-> st.byProduct]

StoredUrls(all, byProduct) ==
  Range(all) \cup UNION {Range(byProduct[k]) : k \in DOMAIN byProduct}

\* the target being processed (0: none)
During == IF bpc = "running" THEN idx ELSE 0

StoreBecomes(all, byProduct) ==
  /\ imageUrls' = all
  /\ productImages' = byProduct
  /\ stamps' = stamps \cup
       {<<u, During>> : u \in StoredUrls(all, byProduct)
                               \ StoredUrls(imageUrls, productImages)}

\* the handler of a JSON/XHR response that page number j (the current page,
\* or the page of an earlier target whose response.text() settles only now)
\* produced runs from response.text() to its end
ApiResponse ==
  /\ respCount < env.respLimit
  /\ \E r \in env.pool, j \in 1..idx :
       /\ r.api
       /\ LET h == [r EXCEPT !.pid = HandlerProductId(r, productUrls[j])]
              st == HandlerStore(h, imageUrls, productImages)
          IN StoreBecomes(st.all, st.byProduct)
  /\ respCount' = respCount + 1
  /\ UNCHANGED <<batchVars, attemptVars, dl, files, page, trace,
                 measurements, waits, attempts>>

\* the handler of any other response of the current page runs to its end
ImageResponse ==
  /\ respCount < env.respLimit
  /\ \E r \in env.pool :
       /\ ~r.api
       /\ StoreBecomes(DirectImage(imageUrls, r.url), productImages)
  /\ respCount' = respCount + 1
  /\ UNCHANGED <<batchVars, attemptVars, dl, files, page, trace,
                 measurements, waits, attempts>>

----------------------------------------------------------------------------

Next ==
  \/ GotoStrictOk \/ GotoStrictFail \/ GotoLooseOk \/ GotoLooseFail
  \/ ExtractInfoOk \/ ExtractInfoFail
  \/ SimulateOk \/ SimulateFail
  \/ MeasureFirst \/ ScrollRound \/ ScrollFail
  \/ SettleFirst \/ SettleDone
  \/ FetchOk \/ FetchFail \/ StreamFinish \/ StreamError \/ Pace
  \/ RetryWaitDone \/ BetweenDelayDone
  \/ ApiResponse \/ ImageResponse

Spec == Init /\ [][Next]_vars

----------------------------------------------------------------------------
(* downloadAll on its own: called on any sequence of URLs, and called again *)

\* longest argument of downloadAll
MaxImages == 3

\* calls of downloadAll with the same arguments
MaxCalls == 2

\* a string that new URL() rejects
BadUrl == <<"//", "img.alicdn.com", "/i/", "b", ".jpg">>

DlUrls == {WHigh, WMid, BadUrl}

RECURSIVE SeqsUpTo(_, _)
\* the sequences over S of length 0..n
SeqsUpTo(S, n) ==
  IF n = 0 THEN {<<>>}
  ELSE LET T == SeqsUpTo(S, n - 1)
       IN T \cup {Append(t, x) : t \in {t \in T : Len(t) = n - 1}, x \in S}

\* the images argument of downloadAll
DlInputs == SeqsUpTo(DlUrls, MaxImages) \ {<<>>}

\* the productId and productName arguments
DlInfos ==
  {[productId |-> "1001", productName |-> "Solo Booth"],
   [productId |-> NoPid, productName |-> ""]}

InitDl ==
  /\ env = [respLimit |-> 0, pool |-> {}, mayFail |-> {}]
  /\ productUrls = <<TargetA>>
  /\ idx = 1
  /\ bpc = "running"
  /\ results = <<>>
  /\ pc = "Retrieving"
  /\ retryCount = 0
  /\ waitUntil = "networkidle"
  /\ productInfo \in DlInfos
  /\ previousHeight = 0
  /\ currentHeight = 0
  /\ selectedUrls \in DlInputs
  /\ dl = NoDl
  /\ files = EmptyMap
  /\ imageUrls = <<>>
  /\ productImages = EmptyMap
  /\ page = TargetA
  /\ respCount = 0
  /\ trace = <<"Retrieving">>
  /\ measurements = <<>>
  /\ waits = <<>>
  /\ attempts = 1
  /\ stamps = {}
  /\ call = NoCall

\* downloadAll(images, productId, productName) is called and runs to its
\* first suspension or to its return: the first call, or a later call with
\* the same arguments
CallDownloadAll ==
  /\ \/ pc = "Retrieving" /\ dl.mode = "idle"
     \/ pc = "Done" /\ Len(results) < MaxCalls
  /\ LET st == DownloadAllStart(selectedUrls, ProductIdOr(productInfo),
                                ProductNameOr(productInfo), files)
     IN /\ dl' = st
        /\ IF st.mode = "done"
           THEN /\ pc' = "Done"
                /\ results' = Append(results, SuccessResult(st, Len(selectedUrls)))
           ELSE /\ pc' = "Retrieving"
                /\ results' = results
  /\ UNCHANGED <<env, call, productUrls, idx, bpc, storeVars, netVars, retryCount,
                 waitUntil, productInfo, previousHeight, currentHeight,
                 selectedUrls, files, trace, measurements, waits, attempts>>

NextDl ==
  \/ CallDownloadAll
  \/ FetchOk \/ FetchFail \/ StreamFinish \/ StreamError \/ Pace

SpecDl == InitDl /\ [][NextDl]_vars

----------------------------------------------------------------------------
(* ImageUrlExtractor on its own: its methods called on any payload *)

\* calls of extractFromResponse and clear in a run
MaxExtractorCalls == 2

WData == <<DataScheme, "AAAA">>
WPlain == <<Scheme, "img.alicdn.com", "/i/", "b", ".jpg">>
WPlainQ == WPlain \o <<"?", "t=1">>
WPlainQLow == WPlain \o <<"?", "t=1", "?", "_50x50">>
WLowQ == WLow \o <<"?", "t=1">>
WLowQ2 == WLow \o <<"?", "t=1", "?", "v=2">>
WHighQ == WHigh \o <<"?", "t=1">>
WHighQLow == WHigh \o <<"?", "_50x50">>
WHighQ2Low == WHigh \o <<"?", "t=1", "?", "_50x50">>

\* the candidate strings of the payloads
ExWords ==
  {WLow, WHigh, WIcon, WOther, WMid, WQuery, WData, WPlain, WPlainQ,
   WPlainQLow, WLowQ, WLowQ2, WHighQ, WHighQLow, WHighQ2Low}

\* responseBody: one candidate, or two
ExBodies ==
  {<<w>> : w \in ExWords}
    \cup {<<WLow, WHigh>>, <<WHigh, WLow>>, <<WIcon, WData>>, <<WMid, WPlain>>}

\* productId
ExIds == {NoPid, "1001"}

\* the record of a call: arguments, store before it, value returned, and
\* the number of calls that changed the store so far
CallRecord(method, body, productId, returned, seq) ==
  [method |-> method, body |-> body, productId |-> productId,
   all |-> imageUrls, byProduct |-> productImages, returned |-> returned,
   seq |-> seq]

\* the scraper is idle: no page is open and no response arrives
InitEx ==
  /\ env = [respLimit |-> 0, pool |-> {}, mayFail |-> {}]
  /\ productUrls = <<TargetA>>
  /\ idx = 1
  /\ bpc = "done"
  /\ results = <<>>
  /\ pc = "Done"
  /\ retryCount = 0
  /\ waitUntil = "networkidle"
  /\ productInfo = NoInfo
  /\ previousHeight = 0
  /\ currentHeight = 0
  /\ selectedUrls = <<>>
  /\ dl = NoDl
  /\ files = EmptyMap
  /\ imageUrls = <<>>
  /\ productImages = EmptyMap
  /\ page = TargetA
  /\ respCount = 0
  /\ trace = <<"Done">>
  /\ measurements = <<>>
  /\ waits = <<>>
  /\ attempts = 1
  /\ stamps = {}
  /\ call = NoCall

\* what a call to the extractor leaves alone
exIdle ==
  <<env, productUrls, idx, bpc, results, attemptVars, dl, files, netVars,
    trace, measurements, waits, attempts>>

\* extractFromResponse(url, responseBody, productId)
CallExtractFromResponse ==
  /\ call.seq < MaxExtractorCalls
  /\ \E body \in ExBodies, productId \in ExIds :
       /\ StoreBecomes(ExtractImageUrls(imageUrls, body),
                       ExtractProductImages(productImages, body, productId))
       /\ call' = CallRecord("extractFromResponse", body, productId,
                             ExtractFound(body), call.seq + 1)
  /\ UNCHANGED exIdle

\* getAllUrls()
GetAllUrls(all) == all

CallGetAllUrls ==
  /\ call' = CallRecord("getAllUrls", <<>>, NoPid, GetAllUrls(imageUrls),
                        call.seq)
  /\ UNCHANGED <<exIdle, storeVars>>

\* getProductUrls(productId)
CallGetProductUrls ==
  /\ \E productId \in ExIds :
       call' = CallRecord("getProductUrls", <<>>, productId,
                          GetProductUrls(productImages, productId), call.seq)
  /\ UNCHANGED <<exIdle, storeVars>>

\* clear()
CallClear ==
  /\ call.seq < MaxExtractorCalls
  /\ imageUrls' = <<>>
  /\ productImages' = EmptyMap
  /\ stamps' = {}
  /\ call' = CallRecord("clear", <<>>, NoPid, FALSE, call.seq + 1)
  /\ UNCHANGED exIdle

NextEx ==
  \/ CallExtractFromResponse \/ CallGetAllUrls \/ CallGetProductUrls
  \/ CallClear

SpecEx == InitEx /\ [][NextEx]_vars

----------------------------------------------------------------------------
(* The URL selection of scrapeProductPage on any content of the store *)

\* URLs in the store when the settle wait ends
MaxStored == 3

WImgHigh == <<Scheme, "img.alicdn.com", "/i/", "c", "_960x960", ".jpg">>
WKfMid == <<Scheme, "s.alicdn.com", "/kf/", "H5", "_300x300", ".jpg">>
WKfTwo == <<Scheme, "s.alicdn.com", "/kf/", "H6", "_300x300", "_300x300", ".jpg">>
WScIcon == <<Scheme, "sc04.alicdn.com", "/kf/", "icon", ".png">>
WScPlain == <<Scheme, "sc04.alicdn.com", "/kf/", "H4", ".jpg">>

RankUrls == {WHigh, WImgHigh, WKfMid, WKfTwo, WScIcon, WScPlain, WMid, WOther}

\* Array.from(this.imageExtractor.imageUrls): any stored URLs, in any order
RankInputs ==
  {s \in SeqsUpTo(RankUrls, MaxStored) : Cardinality(Range(s)) = Len(s)}

\* scrapeProductPage is in the second timer of its settle wait, for a page
\* without product id, and no response arrives any more
InitRank ==
  /\ env = [respLimit |-> 0, pool |-> {}, mayFail |-> {}]
  /\ productUrls = <<TargetN>>
  /\ idx = 1
  /\ bpc = "running"
  /\ results = <<>>
  /\ pc = "SettlingMore"
  /\ retryCount = 0
  /\ waitUntil = "networkidle"
  /\ productInfo = [productId |-> NoPid, productName |-> "Solo Booth"]
  /\ previousHeight = MaxHeight
  /\ currentHeight = MaxHeight
  /\ selectedUrls = <<>>
  /\ dl = NoDl
  /\ files = EmptyMap
  /\ imageUrls \in RankInputs
  /\ productImages = EmptyMap
  /\ page = TargetN
  /\ respCount = 0
  /\ trace = <<"Navigating", "ExtractingInfo", "SimulatingPresence",
               "LazyLoadScrolling", "Settling">>
  /\ measurements = <<MaxHeight, MaxHeight>>
  /\ waits = <<>>
  /\ attempts = 1
  /\ stamps = {<<u, 1>> : u \in Range(imageUrls)}
  /\ call = NoCall

NextRank == SettleDone

SpecRank == InitRank /\ [][NextRank]_vars

----------------------------------------------------------------------------
(* The response handlers while scrapeProductPage is suspended *)

\* responses that arrive during one suspension
MaxEvents == 3

RespImagePlain ==
  [api |-> FALSE, text |-> "ok", json |-> FALSE, pid |-> NoPid,
   url |-> WPlain, body |-> <<>>]
RespPageQuery ==
  [api |-> TRUE, text |-> "ok", json |-> TRUE, pid |-> "page",
   url |-> ApiUrl, body |-> <<WHighQ, WMid>>]

\* the response events of the page
NetPool == ResponsePool \cup {RespImagePlain, RespPageQuery}

\* scrapeProductPage is in the first timer of its settle wait: the handlers
\* of the responses run one after the other, in the order of arrival
InitNet ==
  /\ env = [respLimit |-> MaxEvents, pool |-> NetPool, mayFail |-> {}]
  /\ productUrls = <<TargetA>>
  /\ idx = 1
  /\ bpc = "running"
  /\ results = <<>>
  /\ pc = "Settling"
  /\ retryCount = 0
  /\ waitUntil = "networkidle"
  /\ productInfo = [productId |-> "1001", productName |-> "Solo Booth"]
  /\ previousHeight = MaxHeight
  /\ currentHeight = MaxHeight
  /\ selectedUrls = <<>>
  /\ dl = NoDl
  /\ files = EmptyMap
  /\ imageUrls = <<>>
  /\ productImages = EmptyMap
  /\ page = TargetA
  /\ respCount = 0
  /\ trace = <<"Navigating", "ExtractingInfo", "SimulatingPresence",
               "LazyLoadScrolling", "Settling">>
  /\ measurements = <<MaxHeight, MaxHeight>>
  /\ waits = <<>>
  /\ attempts = 1
  /\ stamps = {}
  /\ call = NoCall

NextNet == ApiResponse \/ ImageResponse

SpecNet == InitNet /\ [][NextNet]_vars

----------------------------------------------------------------------------
(* downloadAll called again for the same product with another list *)

\* longest argument of downloadAll
MaxListed == 2

\* calls of downloadAll for the product
MaxRepeats == 2

\* a stored thumbnail URL whose only image extension after the size marker
\* is in its query: the canonical form of ...H1.jpg_50x50?f.jpg
WSizeLast ==
  <<Scheme, "sc04.alicdn.com", "/kf/", "H1", ".jpg", "_960x960", "q80", "?",
    "f", ".jpg">>

\* a URL without extension in its path
WNoExt == <<Scheme, "sc04.alicdn.com", "/kf/", "H7", "?", "f", ".jpg">>

ReUrls == {WHigh, WMid, WSizeLast, WNoExt}

\* the images arguments
ReInputs ==
  {s \in SeqsUpTo(ReUrls, MaxListed) : s # <<>> /\ Cardinality(Range(s)) = Len(s)}

\* scrapeProductPage has selected no URLs yet; productId and productName
\* are those of the product
InitRe ==
  /\ env = [respLimit |-> 0, pool |-> {}, mayFail |-> {}]
  /\ productUrls = <<TargetA>>
  /\ idx = 1
  /\ bpc = "running"
  /\ results = <<>>
  /\ pc = "Retrieving"
  /\ retryCount = 0
  /\ waitUntil = "networkidle"
  /\ productInfo \in DlInfos
  /\ previousHeight = 0
  /\ currentHeight = 0
  /\ selectedUrls = <<>>
  /\ dl = NoDl
  /\ files = EmptyMap
  /\ imageUrls = <<>>
  /\ productImages = EmptyMap
  /\ page = TargetA
  /\ respCount = 0
  /\ trace = <<"Retrieving">>
  /\ measurements = <<>>
  /\ waits = <<>>
  /\ attempts = 1
  /\ stamps = {}
  /\ call = NoCall

\* downloadAll(images, productId, productName) is called with the URLs an
\* attempt or a later visit of the product selected, and runs to its first
\* suspension or to its return
CallDownloadAllWith ==
  /\ \/ pc = "Retrieving" /\ dl.mode = "idle"
     \/ pc = "Done" /\ Len(results) < MaxRepeats
  /\ \E images \in ReInputs :
       LET st == DownloadAllStart(images, ProductIdOr(productInfo),
                                  ProductNameOr(productInfo), files)
       IN /\ selectedUrls' = images
          /\ dl' = st
          /\ IF st.mode = "done"
             THEN /\ pc' = "Done"
                  /\ results' = Append(results, SuccessResult(st, Len(images)))
             ELSE /\ pc' = "Retrieving"
                  /\ results' = results
  /\ UNCHANGED <<env, call, productUrls, idx, bpc, storeVars, netVars,
                 retryCount, waitUntil, productInfo, previousHeight,
                 currentHeight, files, trace, measurements, waits, attempts>>

NextRe ==
  \/ CallDownloadAllWith
  \/ FetchOk \/ FetchFail \/ StreamFinish \/ StreamError \/ Pace

SpecRe == InitRe /\ [][NextRe]_vars

----------------------------------------------------------------------------
(* Progress of scrapeProductPage: every awaited operation of the page
   settles; the navigation may fail, the later operations succeed *)

InitLive ==
  /\ env = [respLimit |-> 0, pool |-> {}, mayFail |-> {"Navigating"}]
  /\ productUrls \in {<<TargetA>>, <<TargetN, TargetA>>}
  /\ idx = 1
  /\ bpc = "running"
  /\ results = <<>>
  /\ pc = "Navigating"
  /\ retryCount = 0
  /\ waitUntil = "networkidle"
  /\ productInfo = NoInfo
  /\ previousHeight = 0
  /\ currentHeight = 0
  /\ selectedUrls = <<>>
  /\ dl = NoDl
  /\ files = EmptyMap
  /\ imageUrls = <<>>
  /\ productImages = EmptyMap
  /\ page = productUrls[1]
  /\ respCount = 0
  /\ trace = <<"Navigating">>
  /\ measurements = <<>>
  /\ waits = <<>>
  /\ attempts = 1
  /\ stamps = {}
  /\ call = NoCall

NextLive ==
  \/ GotoStrictOk \/ GotoStrictFail \/ GotoLooseOk \/ GotoLooseFail
  \/ ExtractInfoOk \/ SimulateOk
  \/ MeasureFirst \/ ScrollRound
  \/ SettleFirst \/ SettleDone
  \/ RetryWaitDone \/ BetweenDelayDone

\* page.evaluate and the scroll helpers of a round return
SpecLive ==
  InitLive /\ [][NextLive]_vars /\ WF_vars(MeasureFirst) /\ WF_vars(ScrollRound)

----------------------------------------------------------------------------
(* URL selection after the responses of a product page *)

\* response events of the page
MaxSelEvents == 2

\* the JSON of the product with an image of the seller's own site next to
\* the CDN image
RespPageOther ==
  [api |-> TRUE, text |-> "ok", json |-> TRUE, pid |-> "page",
   url |-> ApiUrl, body |-> <<WHigh, WOther>>]

SelPool == {RespPageOther, RespText, RespImage, RespSmall}

\* scrapeProductPage is in the first timer of its settle wait
InitSel ==
  /\ env = [respLimit |-> MaxSelEvents, pool |-> SelPool, mayFail |-> {}]
  /\ productUrls = <<TargetA>>
  /\ idx = 1
  /\ bpc = "running"
  /\ results = <<>>
  /\ pc = "Settling"
  /\ retryCount = 0
  /\ waitUntil = "networkidle"
  /\ productInfo = [productId |-> "1001", productName |-> "Solo Booth"]
  /\ previousHeight = MaxHeight
  /\ currentHeight = MaxHeight
  /\ selectedUrls = <<>>
  /\ dl = NoDl
  /\ files = EmptyMap
  /\ imageUrls = <<>>
  /\ productImages = EmptyMap
  /\ page = TargetA
  /\ respCount = 0
  /\ trace = <<"Navigating", "ExtractingInfo", "SimulatingPresence",
               "LazyLoadScrolling", "Settling">>
  /\ measurements = <<MaxHeight, MaxHeight>>
  /\ waits = <<>>
  /\ attempts = 1
  /\ stamps = {}
  /\ call = NoCall

NextSel ==
  \/ ApiResponse \/ ImageResponse
  \/ SettleFirst \/ SettleDone
  \/ FetchOk \/ FetchFail \/ StreamFinish \/ StreamError \/ Pace

SpecSel == InitSel /\ [][NextSel]_vars

----------------------------------------------------------------------------
(* Properties *)

IsFailure(r) == "error" \in DOMAIN r

\* the result the attempt in progress has produced
AttemptResult ==
  IF selectedUrls = <<>> THEN EmptyResult
  ELSE SuccessResult(dl, Len(selectedUrls))

\* C1 as stated: one call to scrapeProductPage starts at most retryAttempts
\* attempts.
C1_AtMostCapAttempts == attempts <= retryAttempts

\* C1 amended: one call starts at most retryAttempts + 1 attempts (the first
\* one and retryAttempts retries); an attempt is retried only while fewer than
\* retryAttempts retries were made, and after that the call fails.
C1_AtMostCapRetries ==
  /\ attempts <= retryAttempts + 1
  /\ pc = "Retrying" => attempts <= retryAttempts
  /\ pc = "Failed" => attempts = retryAttempts + 1

C1_Witness == pc = "Failed" /\ attempts = retryAttempts + 1

\* C2: in batch mode the store holds, while target n+1 is processed, no URL
\* that was captured while an earlier target was processed.
C2_ClearedBetweenTargets == \A s \in stamps : s[2] \in {0, idx}

\* C3: after a batch has processed target A and then target B,
\* getProductUrls(idA) returns the empty sequence.
C3_FirstTargetEmptyAtEnd ==
  (/\ bpc = "done" /\ Len(productUrls) = 2
   /\ Truthy(ProductIdOf(productUrls[1]))
   /\ ProductIdOf(productUrls[1]) # ProductIdOf(productUrls[2]))
  => GetProductUrls(productImages, ProductIdOf(productUrls[1])) = <<>>

\* C4 as stated: the wait before attempt n+1 is longer than the wait before
\* attempt n.
C4_DelayGrows ==
  \A i \in 1..(Len(waits) - 1) : waits[i + 1].delay > waits[i].delay

\* C4 amended: every wait before a retry lies between retryDelay and
\* 2 * retryDelay, whatever the number of the attempt it precedes.
C4_DelayInFixedRange ==
  \A i \in 1..Len(waits) :
    retryDelay <= waits[i].delay /\ waits[i].delay <= 2 * retryDelay

C4_Witness ==
  Len(waits) >= 2 /\ waits[2].delay < waits[1].delay

\* C5: when the first k attempts of a call fail and attempt k+1 does not, the
\* call returns the result of attempt k+1, and exactly k retry waits occurred,
\* one before each of the attempts 2..k+1 and none before attempt 1.
C5_RetryThenResult ==
  /\ Len(waits) = attempts - 1
  /\ \A i \in 1..Len(waits) : waits[i].before = i + 1
  /\ pc = "Done" => results[Len(results)] = AttemptResult

C5_Witness ==
  /\ pc = "Done" /\ attempts = 3 /\ Len(waits) = 2
  /\ results[Len(results)].success

\* C6: when every attempt of a call raises, the call fails with the error
\* raised by the last attempt made, and returns no result object.
C6_LastErrorPropagates ==
  [][(Len(results') = Len(results) + 1 /\ pc \notin {"SettlingMore", "Retrieving"})
     => /\ IsFailure(results'[Len(results')])
        /\ results'[Len(results')].error.attempt = attempts
        /\ results'[Len(results')].error.at = pc
        /\ attempts = retryAttempts + 1]_vars

C6_Witness ==
  \E k \in 1..Len(results) :
    IsFailure(results[k]) /\ results[k].error.attempt = retryAttempts + 1

\* C7: scrapeMultipleProducts returns one entry per input target, in input
\* order; a target whose attempts are exhausted gives the entry
\* {success: false, url, error}, and the targets after it are still processed.
C7_OneEntryPerTarget ==
  /\ Len(results) = IF bpc = "running" THEN idx - 1 ELSE idx
  /\ bpc = "done" => Len(results) = Len(productUrls)
  /\ \A k \in 1..Len(results) :
       IF IsFailure(results[k])
       THEN /\ DOMAIN results[k] = {"success", "url", "error"}
            /\ ~results[k].success
            /\ results[k].url = productUrls[k]
            /\ results[k].error.attempt = retryAttempts + 1
       ELSE results[k].success
            => results[k].productId = ProductIdOr([productId |-> ProductIdOf(productUrls[k])])

C7_Witness ==
  /\ bpc = "done" /\ Len(results) = 2
  /\ IsFailure(results[1]) /\ results[2].success

AllPhases ==
  <<"Navigating", "ExtractingInfo", "SimulatingPresence", "LazyLoadScrolling",
    "Settling", "SelectingUrls", "Retrieving", "Done">>

PhasesWithoutRetrieving ==
  <<"Navigating", "ExtractingInfo", "SimulatingPresence", "LazyLoadScrolling",
    "Settling", "SelectingUrls", "Done">>

IsPrefix(s, t) == Len(s) <= Len(t) /\ s = SubSeq(t, 1, Len(s))

\* the lazy-load loop of the attempt in progress has ended
LoopEnded ==
  /\ measurements # <<>>
  /\ ~LoopContinues(measurements[Len(measurements)],
                    IF Len(measurements) = 1 THEN 0
                    ELSE measurements[Len(measurements) - 1])

\* C8 as stated: an attempt that ends normally has gone through all eight
\* phases, none skipped.
C8_AllPhasesInOrder == pc = "Done" => trace = AllPhases

\* C8 amended: the phases of an attempt follow each other in the stated order
\* with none skipped, except that an attempt whose selection is empty goes
\* from SelectingUrls to Done without Retrieving; the store is read for the
\* selection only after the lazy-load loop has ended and both timers of the
\* settle wait have fired.
C8_PhasesInOrder ==
  [][/\ pc' \notin {"Retrying", "Failed"}
        => IsPrefix(trace', AllPhases) \/ IsPrefix(trace', PhasesWithoutRetrieving)
     /\ pc' = "Done"
        => trace' = IF selectedUrls' = <<>> THEN PhasesWithoutRetrieving
                    ELSE AllPhases
     /\ (Contains(trace', "SelectingUrls") /\ ~Contains(trace, "SelectingUrls"))
        => pc = "SettlingMore" /\ LoopEnded]_vars

C8_Witness ==
  pc = "Done" /\ selectedUrls = <<>> /\ trace = PhasesWithoutRetrieving

\* the measurement before the i-th one; the loop compares the first one
\* with 0
PrevMeasurement(i) == IF i = 1 THEN 0 ELSE measurements[i - 1]

AfterLoop == pc \in {"Settling", "SettlingMore", "Retrieving", "Done"}

\* C9 as stated: the lazy-load loop stops exactly when the newest height
\* equals the previous one.
C9_StopsWhenEqual ==
  /\ \A i \in 1..(Len(measurements) - 1) : measurements[i] # PrevMeasurement(i)
  /\ AfterLoop
     => measurements[Len(measurements)] = PrevMeasurement(Len(measurements))

\* C9 amended: the lazy-load loop goes on only while the newest height is
\* greater than the previous one, and stops as soon as it is equal or smaller;
\* at exit the last height is not greater than the one before it.
C9_StopsWhenNotGrown ==
  /\ \A i \in 1..(Len(measurements) - 1) : measurements[i] > PrevMeasurement(i)
  /\ AfterLoop
     => measurements[Len(measurements)] <= PrevMeasurement(Len(measurements))
  /\ (pc = "LazyLoadScrolling" /\ measurements # <<>>)
     => measurements[Len(measurements)] > PrevMeasurement(Len(measurements))

C9_Witness ==
  /\ pc = "Settling" /\ Len(measurements) >= 2
  /\ measurements[Len(measurements)] < measurements[Len(measurements) - 1]

\* the selection has just been made by this step
Selects == pc = "SettlingMore" /\ pc' # "SettlingMore"

\* C10 as stated: for any target id the selection is the target-keyed set
\* when it is non-empty, else the ranked filter of the global set when that
\* is non-empty, else the CDN URLs that pass the UI-exclusion filter.
C10_PriorityChain ==
  [][Selects =>
      LET id == ProductIdOr(productInfo)
      IN selectedUrls' =
           IF Len(GetProductUrls(productImages, id)) > 0
           THEN GetProductUrls(productImages, id)
           ELSE IF Len(RankedUrls(imageUrls)) > 0 THEN RankedUrls(imageUrls)
           ELSE FallbackUrls(imageUrls)]_vars

\* C10 amended: the target-keyed set is used only when the target id is not
\* 'unknown' and the set is non-empty; otherwise the ranked filter of the
\* global set when that is non-empty, else the CDN URLs that pass the
\* UI-exclusion filter.
C10_PriorityChainKnownId ==
  [][Selects =>
      LET id == ProductIdOr(productInfo)
      IN selectedUrls' =
           IF id # "unknown" /\ Len(GetProductUrls(productImages, id)) > 0
           THEN GetProductUrls(productImages, id)
           ELSE IF Len(RankedUrls(imageUrls)) > 0 THEN RankedUrls(imageUrls)
           ELSE FallbackUrls(imageUrls)]_vars

C10_Witness ==
  /\ pc = "Retrieving"
  /\ ProductIdOr(productInfo) = "unknown"
  /\ Len(GetProductUrls(productImages, "unknown")) > 0
  /\ selectedUrls # GetProductUrls(productImages, "unknown")

\* C11: when the selection is empty, scrapeProductPage returns
\* {success: false, images: []}: it does not raise, starts no retry and does
\* not call downloadAll.
C11_EmptySelectionReturns ==
  [][(Selects /\ selectedUrls' = <<>>)
     => /\ pc' = "Done"
        /\ results' = Append(results, [success |-> FALSE, images |-> <<>>])
        /\ dl' = dl /\ files' = files
        /\ attempts' = attempts /\ waits' = waits /\ idx' = idx]_vars

C11_Witness ==
  /\ pc = "Done" /\ selectedUrls = <<>> /\ dl = NoDl
  /\ results[Len(results)] = [success |-> FALSE, images |-> <<>>]

\* this step ends the navigation of the attempt in progress
LeavesNavigation == pc' # "Navigating" \/ attempts' # attempts \/ idx' # idx

\* this step ends the attempt in progress with an error
FailsAttempt ==
  \/ pc' \in {"Retrying", "Failed"}
  \/ Len(results') > Len(results) /\ IsFailure(results'[Len(results')])

\* C12: an attempt navigates first with networkidle; domcontentloaded is tried
\* once, and only after the networkidle navigation failed; the attempt fails
\* at navigation only when both navigations failed.
C12_NavigationFallback ==
  [][/\ (pc' = "Navigating" /\ (pc # "Navigating" \/ attempts' # attempts
                                \/ idx' # idx))
        => waitUntil' = "networkidle"
     /\ (waitUntil' = "domcontentloaded" /\ waitUntil # "domcontentloaded")
        => pc = "Navigating" /\ ~LeavesNavigation
     /\ (pc = "Navigating" /\ waitUntil = "domcontentloaded"
         /\ respCount' = respCount)
        => LeavesNavigation
     /\ (pc = "Navigating" /\ FailsAttempt)
        => waitUntil = "domcontentloaded"]_vars

C12_Witness ==
  /\ pc = "ExtractingInfo" /\ waitUntil = "domcontentloaded"
  /\ attempts = 2

\* the number of items of uniqueImages the loop of downloadAll is done with
Handled ==
  CASE dl.mode = "done" -> Len(dl.unique)
    [] dl.mode = "pace" -> dl.i + 1
    [] OTHER -> dl.i

\* item i of uniqueImages is in the success list / in the failure list
InDownloaded(i) == \E k \in 1..Len(dl.downloaded) : dl.downloaded[k].index = i - 1
InFailed(i) == \E k \in 1..Len(dl.failed) : dl.failed[k].url = dl.unique[i]

\* the number of requests made for u
Fetches(u) == Cardinality({k \in 1..Len(dl.fetched) : dl.fetched[k] = u})

\* C13: downloadAll never raises and never stops early: every distinct URL of
\* its input is handled exactly once whatever became of the items before it,
\* each handled URL is in exactly one of the success list and the failure
\* list, and the returned sequence is the stored paths of the successful
\* items in input order.
C13_EveryItemOneOutcome ==
  /\ pc \in {"Retrieving", "Done"}
  /\ dl.mode # "idle" => dl.unique = Dedup(selectedUrls)
  /\ Len(dl.downloaded) + Len(dl.failed) = Handled
  /\ \A i \in 1..Len(dl.unique) :
       IF i <= Handled THEN InDownloaded(i) # InFailed(i)
       ELSE ~InDownloaded(i) /\ ~InFailed(i)
  /\ \A u \in Range(dl.unique) : Fetches(u) <= 1
  /\ \A k \in 1..(Len(dl.downloaded) - 1) :
       dl.downloaded[k].index < dl.downloaded[k + 1].index
  /\ dl.mode = "done"
     => /\ Handled = Len(dl.unique)
        /\ results[Len(results)].images = dl.downloaded
        /\ \A k \in 1..Len(dl.downloaded) :
             /\ dl.downloaded[k] \in DOMAIN files
             /\ files[dl.downloaded[k]] = dl.unique[dl.downloaded[k].index + 1]

C13_Witness ==
  /\ dl.mode = "done" /\ Len(results) = 1
  /\ Len(dl.failed) >= 1 /\ dl.failed[1].error = "stream"
  /\ Len(dl.downloaded) >= 1 /\ dl.downloaded[1].index >= 1

\* C14: one call of downloadAll requests each distinct URL of its input at
\* most once, however often the input repeats it; downloadAll([u, u, u])
\* makes exactly one request for u.
C14_OneFetchPerUrl ==
  /\ dl.mode # "idle"
     => /\ Range(dl.unique) = Range(selectedUrls)
        /\ Len(dl.unique) = Cardinality(Range(selectedUrls))
  /\ \A u \in Range(selectedUrls) : Fetches(u) <= 1
  /\ (dl.mode = "done" /\ Len(results) = 1)
     => \A u \in Range(selectedUrls) :
          Fetches(u) = IF ValidUrl(u) THEN 1 ELSE 0

C14_Witness ==
  /\ dl.mode = "done"
  /\ selectedUrls = <<WHigh, WHigh, WHigh>>
  /\ dl.fetched = <<WHigh>>

\* the destination path of the item u of uniqueImages
PathOfItem(u) ==
  LET i == CHOOSE j \in 1..Len(dl.unique) : dl.unique[j] = u
  IN FilePath(u, dl.productId, dl.productName, i - 1)

\* C15 as stated: at every reachable state every file present at a
\* destination path was written completely.
C15_NoPartialFileEver == \A p \in DOMAIN files : files[p] # Partial

\* C15 amended: after a retrieval that ended in a stream error no file exists
\* at the item's destination path, and a file that is not complete exists only
\* at the destination of the one item whose stream is in progress.
C15_PartialOnlyInFlight ==
  /\ \A k \in 1..Len(dl.failed) :
       dl.failed[k].error = "stream"
       => PathOfItem(dl.failed[k].url) \notin DOMAIN files
  /\ \A p \in DOMAIN files :
       files[p] = Partial
       => pc = "Retrieving" /\ dl.mode = "stream" /\ p = CurrentPath

C15_Witness ==
  /\ Len(dl.failed) >= 1 /\ dl.failed[1].error = "stream"
  /\ PathOfItem(dl.failed[1].url) \notin DOMAIN files
  /\ Len(dl.downloaded) >= 1 /\ dl.mode = "done"

\* C16: in downloadAll a pacing wait occurs after every item, failed or not,
\* before the retrieval of the next item starts: the request of an item never
\* follows directly on the failed request or the failed stream of another.
C16_PacingAfterEveryItem ==
  [][~(dl.mode \in {"fetch", "stream"} /\ dl'.mode = "fetch")]_vars

\* a second call of downloadAll with the same arguments has been made
SecondCall == (Len(results) = 1 /\ pc = "Retrieving") \/ Len(results) >= 2

\* C17: when the destination file of an item exists, downloadImage makes no
\* request, leaves the file as it is and reports its path as a success; a
\* second downloadAll with the same arguments makes no request for the items
\* the first call stored.
C17_ExistingFileSkipped ==
  [][/\ Len(dl'.fetched) > Len(dl.fetched) => ~Exists(files, CurrentPath)
     /\ \A p \in DOMAIN files :
          files[p] # Partial => p \in DOMAIN files' /\ files'[p] = files[p]
     /\ SecondCall'
        => \A k \in 1..Len(results'[1].images) :
             LET p == results'[1].images[k]
             IN /\ dl'.unique[p.index + 1] \notin Range(dl'.fetched)
                /\ p.index < Handled' => p \in Range(dl'.downloaded)]_vars

C17_Witness ==
  /\ Len(results) = 2 /\ dl.mode = "done"
  /\ Len(dl.downloaded) = 2 /\ dl.fetched = <<>>

\* C18: the failure of a single-item retrieval, even of every item, is
\* recovered inside downloadAll: scrapeProductPage neither retries nor fails
\* because of it, and the failed item is absent from the returned image paths.
C18_ItemFailureRecovered ==
  [][pc = "Retrieving"
     => /\ pc' \in {"Retrieving", "Done"}
        /\ attempts' = attempts /\ retryCount' = retryCount
        /\ Len(dl'.failed) >= Len(dl.failed)
        /\ pc' = "Done"
           => LET r == results'[Len(results')]
              IN /\ Len(results') = Len(results) + 1
                 /\ ~IsFailure(r) /\ r.success
                 /\ r.images = dl'.downloaded
                 /\ \A k \in 1..Len(dl'.failed), j \in 1..Len(r.images) :
                      dl'.unique[r.images[j].index + 1] # dl'.failed[k].url]_vars

C18_Witness ==
  /\ pc = "Done" /\ Len(dl.failed) >= 1 /\ Len(dl.failed) = Len(dl.unique)
  /\ results[Len(results)].success
  /\ results[Len(results)].images = <<>>

\* C19: a URL that matches an exclusion pattern (imgextra, icon, flag, logo,
\* _20x20, _40x40, _48x48, _60x60, _80x80, tps graphic) is never in the global
\* set, in a product set or in the ranked list, whether a payload scan or a
\* direct image response delivered it.
C19_NoExcludedStored ==
  \A u \in StoredUrls(imageUrls, productImages) \cup Range(RankedUrls(imageUrls)) :
    ~(HasUiWord(u) \/ HasSmallUi(u) \/ HasTpsGraphic(u))

\* the product ids a call of the extractor can be given in this run
CallIds == {NoPid, "unknown"} \cup {ProductIdOf(productUrls[j]) : j \in 1..Len(productUrls)}

\* C20: the content of the store changes only as the effect of a call of
\* extractFromResponse, extractFromJSON or clear.
C20_OnlyExtractorMethods ==
  [][<<imageUrls, productImages>>' # <<imageUrls, productImages>>
     => \/ imageUrls' = <<>> /\ productImages' = EmptyMap
        \/ \E r \in ResponsePool \cup env.pool, id \in CallIds :
             /\ imageUrls' = ExtractImageUrls(imageUrls, r.body)
             /\ productImages' = ExtractProductImages(productImages, r.body, id)]_vars

----------------------------------------------------------------------------
(* The extractor: return value, canonicalization, store reads *)

\* the last call was extractFromResponse
Extracted == call.method = "extractFromResponse"

\* the call changed the store: some set holds a URL it did not hold before
NewlyCaptured == imageUrls # call.all \/ productImages # call.byProduct

\* the cleaned matches of the patterns in a payload
Matches(body) ==
  {CleanUrl(PatternMatch(p, body[i])) : p \in 1..NumPatterns, i \in 1..Len(body)}
    \ {<<>>}

\* those that pass the data-URI and exclusion filters
Accepted(body) == {m \in Matches(body) : ~IsDataUri(m) /\ ~Excluded(m)}

\* C21 as stated: extractFromResponse returns true if and only if the call
\* newly captured at least one candidate; a rescan of a payload whose
\* candidates are all stored returns false.
C21_TrueIffNewlyCaptured == Extracted => (call.returned <=> NewlyCaptured)

\* C21: extractFromResponse returns true if and only if the payload holds at
\* least one candidate that is neither a data URI nor excluded, whether or not
\* it was stored before; a call that newly captures a URL returns true.
C21_TrueIffAccepted ==
  Extracted =>
    /\ call.returned <=> Accepted(call.body) # {}
    /\ NewlyCaptured => call.returned

\* a rescan of a stored payload returned true
C21_Witness ==
  /\ Extracted
  /\ call.returned
  /\ call.all # <<>>
  /\ ~NewlyCaptured

\* C22: a candidate that occurs once in a payload and is matched by several
\* patterns adds at most one entry to the global set and at most one to the
\* set of the target, also when it carries a query string.
C22_OneEntryPerCandidate ==
  Extracted /\ Len(call.body) = 1 =>
    /\ Len(imageUrls) <= Len(call.all) + 1
    /\ Len(GetProductUrls(productImages, call.productId))
         <= Len(GetProductUrls(call.byProduct, call.productId)) + 1

\* C23: canonicalization is idempotent: the URL stored for a candidate x is
\* canonicalize(x), and canonicalizing it again gives the same URL.
C23_CanonicalizeIdempotent ==
  Extracted =>
    \A x \in Accepted(call.body) :
      \E u \in Range(imageUrls) : u = Canonicalize(x) /\ Canonicalize(u) = u

\* what follows the first "?" of a URL
AfterQ(u) == SubSeq(u, FirstQ(u) + 1, Len(u))

\* C24: for a candidate base?q whose base is transformed (low-res marker
\* replaced or high-res marker appended) the stored URL is the transformed
\* base, "?" and exactly q.
C24_QueryPreserved ==
  Extracted =>
    \A m \in Accepted(call.body) :
      Contains(m, "?") =>
        \E u \in Range(imageUrls) :
          /\ u = Canonicalize(m)
          /\ \/ BaseUrl(u) = BaseUrl(m)
             \/ /\ BaseUrl(u) \in {ReplaceLowRes(BaseUrl(m)), AppendHighRes(BaseUrl(m))}
                /\ u = BaseUrl(u) \o <<"?">> \o AfterQ(m)

\* C25: a candidate that contains a high-resolution marker (_960x960,
\* _800x800, _1200x1200, _1600x1600) is stored unchanged, whatever its query
\* string contains.
C25_HighResUnchanged ==
  Extracted =>
    \A m \in Accepted(call.body) :
      (\E i \in 1..Len(m) : m[i] \in HighResMarkers) =>
        /\ m \in Range(imageUrls)
        /\ Truthy(call.productId) =>
             m \in Range(GetProductUrls(productImages, call.productId))

\* a high-resolution URL with a low-res marker in its query was stored as is
C25_Witness ==
  /\ Extracted
  /\ call.body = <<WHighQLow>>
  /\ call.productId = "1001"
  /\ WHighQLow \in Range(GetProductUrls(productImages, "1001"))

\* C26: a payload with the _50x50 and the _960x960q80 variant of one CDN
\* image leaves one entry for it in the set of the target, the 960x960 URL.
C26_VariantsCollapse ==
  /\ Extracted
  /\ call.body \in {<<WLow, WHigh>>, <<WHigh, WLow>>}
  /\ Truthy(call.productId)
  /\ GetProductUrls(call.byProduct, call.productId) = <<>>
  => GetProductUrls(productImages, call.productId) = <<WHigh>>

\* the payload held the low-res variant first, and the set of target 1001,
\* empty before, holds the 960x960 URL alone
C26_Witness ==
  /\ Extracted
  /\ call.body = <<WLow, WHigh>>
  /\ call.productId = "1001"
  /\ call.byProduct = EmptyMap
  /\ productImages["1001"] = <<WHigh>>

\* no element occurs twice
NoDuplicates(s) == \A i, j \in 1..Len(s) : s[i] = s[j] => i = j

\* the URLs the last extractFromResponse passed to Set.add, in that order
AddedByCall == Captured(AllMatches(call.body, 1))

\* position of the first Set.add of u in the last call
FirstAdd(u) == Min({i \in 1..Len(AddedByCall) : AddedByCall[i] = u})

\* t is s followed by URLs the last call added, each once, in the order in
\* which the call first added them
GrownInOrder(s, t) ==
  /\ IsPrefix(s, t)
  /\ NoDuplicates(t)
  /\ \A i \in (Len(s) + 1)..Len(t) : t[i] \in Range(AddedByCall)
  /\ \A i, j \in (Len(s) + 1)..Len(t) : i < j => FirstAdd(t[i]) < FirstAdd(t[j])

\* C29: getAllUrls() and getProductUrls(id) return each stored URL once, in
\* the order of first insertion; a call that inserts URLs again leaves the
\* size and the order of what was stored as they were.
C29_ReadsInInsertionOrder ==
  /\ call.method = "getAllUrls" =>
       call.returned = imageUrls /\ NoDuplicates(call.returned)
  /\ call.method = "getProductUrls" =>
       /\ NoDuplicates(call.returned)
       /\ call.returned = IF call.productId \in DOMAIN productImages
                          THEN productImages[call.productId] ELSE <<>>
  /\ Extracted =>
       /\ GrownInOrder(call.all, imageUrls)
       /\ \A k \in DOMAIN productImages :
            GrownInOrder(GetProductUrls(call.byProduct, k), productImages[k])
       /\ Range(AddedByCall) \subseteq Range(call.all) => imageUrls = call.all

\* the first of two stored URLs was inserted again; size and order are kept
C29_Witness ==
  /\ Extracted
  /\ call.body = <<WMid>>
  /\ call.all = <<WMid, AppendHighRes(WPlain)>>
  /\ imageUrls = <<WMid, AppendHighRes(WPlain)>>

----------------------------------------------------------------------------
(* The ranked list *)

\* a URL of the CDN that matches no exclusion pattern and is product-grade:
\* high-res marker, product-image subdomain, or product path with at most
\* one size marker
Qualifies(u) ==
  /\ \E i \in 1..Len(u) : u[i] \in AlicdnHosts
  /\ ~Excluded(u)
  /\ \/ \E i \in 1..Len(u) : u[i] \in HighResMarkers \cup ScHosts
     \/ /\ \E i \in 1..(Len(u) - 1) : u[i] \in AlicdnHosts /\ u[i + 1] = "/kf/"
        /\ Cardinality({i \in 1..Len(u) : u[i] \in SizeMarkers}) < 2

\* this step selects by ranking: no set of the target, a qualifying URL
Ranks ==
  /\ Selects
  /\ ~UseProductUrls(productImages, ProductIdOr(productInfo))
  /\ \E u \in Range(imageUrls) : Qualifies(u)

\* the numeric size value of the first size marker, 0 when there is none
SizeValue(u) ==
  IF \E i \in 1..Len(u) : u[i] \in SizeMarkers
  THEN MarkerWidth(u[Min({i \in 1..Len(u) : u[i] \in SizeMarkers})])
  ELSE 0

\* C27: the ranked list is in non-increasing order of size value, and among
\* URLs of equal size value those under /kf/ precede the others.
C27_RankedBySizeThenKf ==
  [][Ranks =>
      \A i, j \in 1..Len(selectedUrls') :
        i < j =>
          /\ SizeValue(selectedUrls'[i]) >= SizeValue(selectedUrls'[j])
          /\ SizeValue(selectedUrls'[i]) = SizeValue(selectedUrls'[j])
               /\ IncludesKf(selectedUrls'[j])
             => IncludesKf(selectedUrls'[i])]_vars

\* three stored URLs were ranked into the reverse of their stored order
C27_Witness ==
  /\ pc = "Retrieving"
  /\ imageUrls = <<WKfMid, WImgHigh, WHigh>>
  /\ selectedUrls = <<WHigh, WImgHigh, WKfMid>>

\* C28: the ranked list holds each qualifying URL of the store once and
\* nothing else.
C28_RankedIsQualifying ==
  [][Ranks =>
      /\ NoDuplicates(selectedUrls')
      /\ Range(selectedUrls') = {u \in Range(imageUrls) : Qualifies(u)}]_vars

\* a non-CDN URL and an excluded URL were dropped, the product image kept
C28_Witness ==
  /\ pc = "Retrieving"
  /\ imageUrls = <<WOther, WScIcon, WHigh>>
  /\ selectedUrls = <<WHigh>>

----------------------------------------------------------------------------
(* Arrival order of the responses *)

\* the store after the handler of response r of the current page has run
AfterEvent(r, st) ==
  IF r.api
  THEN HandlerStore([r EXCEPT !.pid = HandlerProductId(r, productUrls[idx])],
                    st.all, st.byProduct)
  ELSE [all |-> DirectImage(st.all, r.url), byProduct |-> st.byProduct]

\* the set content of a store: the global set and the set of each target
Content(st) ==
  [all |-> Range(st.all),
   byProduct |-> [k \in DOMAIN st.byProduct |-> Range(st.byProduct[k])]]

\* C30: with no clear() in between, the set content of the global set and of
\* every target set after the handlers of response events have run does not
\* depend on the order of arrival: from every store the handlers have
\* produced, any two events handled in either order leave the same content.
C30_ArrivalOrderIrrelevant ==
  LET st == [all |-> imageUrls, byProduct |-> productImages]
  IN \A e, f \in env.pool :
       Content(AfterEvent(f, AfterEvent(e, st)))
         = Content(AfterEvent(e, AfterEvent(f, st)))

\* an image response arrived after a text response: the global set lists
\* the URLs in that order
C30_Witness ==
  /\ pc = "Settling"
  /\ respCount = 2
  /\ imageUrls = <<WMid, WOther, WHigh>>

----------------------------------------------------------------------------
(* Sequential processing *)

\* the files a transfer is writing
InFlight == {f \in DOMAIN files : files[f] = Partial}

\* C31: processing is sequential: at most one transfer of downloadAll is in
\* flight, and it is the one of the current item; every target before the
\* current one has its entry in results, and the steps in progress are those
\* of the current target.
C31_StrictlySequential ==
  /\ Cardinality(InFlight) <= 1
  /\ InFlight # {} => dl.mode = "stream" /\ InFlight = {CurrentPath}
  /\ Len(results) \in {idx - 1, idx}
  /\ Len(results) = idx => pc \in {"Done", "Failed"}
  /\ bpc = "running" => page = productUrls[idx]

\* the second target is retrieving an item after the first target returned
C31_Witness ==
  /\ idx = 2
  /\ Len(results) = 1
  /\ dl.mode = "stream"

----------------------------------------------------------------------------
(* Destination files *)

\* C32: the extension of a destination file contains no size marker.
C32_ExtensionWithoutSizeMarker ==
  \A f \in DOMAIN files : \A i \in 1..Len(f.ext) : f.ext[i] \notin SizeMarkers

\* C39: every path downloadAll lists as a success for a URL holds content
\* fetched from that URL, also when downloadAll was called before with the
\* same product id and name.
C39_SuccessHoldsOwnContent ==
  \A k \in 1..Len(dl.downloaded) :
    LET path == dl.downloaded[k]
    IN path \in DOMAIN files /\ files[path] = dl.unique[path.index + 1]

----------------------------------------------------------------------------
(* Termination of the lazy-load loop *)

----------------------------------------------------------------------------
(* The two sets of the store *)

\* C34: in every reachable state, whatever payload extractions, direct-image
\* captures and clear() calls came before, every URL of a target-keyed set is
\* a member of the global set.
C34_KeyedWithinGlobal ==
  \A k \in DOMAIN productImages : Range(productImages[k]) \subseteq Range(imageUrls)

\* a keyed set filled for the second target, after clear() emptied the store
\* of the first
C34_Witness ==
  /\ idx = 2
  /\ \E k \in DOMAIN productImages : productImages[k] # <<>>

----------------------------------------------------------------------------
(* Size markers of a canonical URL *)

\* the number of size markers in the path of u (the part before the query)
SizeCount(u) == Cardinality({i \in 1..Len(BaseUrl(u)) : u[i] \in SizeMarkers})

\* C35: a candidate whose path carries at most one size marker is stored as
\* a URL whose path carries at most one size marker, and a candidate that is
\* changed without a low-res marker to replace (the high-res marker was
\* appended) carried no size marker at all.
C35_NoDoubleSizeSuffix ==
  Extracted =>
    \A m \in Accepted(call.body) :
      LET u == Canonicalize(m)
      IN /\ u \in Range(imageUrls)
         /\ SizeCount(m) <= 1 => SizeCount(u) <= 1
         /\ (u # m /\ \A i \in 1..Len(m) : m[i] \notin LowResMarkers) =>
              /\ \A i \in 1..Len(m) : m[i] \notin SizeMarkers
              /\ SizeCount(u) = 1

\* one call stored a mid-size URL as it was and appended the marker to a
\* URL without one
C35_Witness ==
  /\ Extracted
  /\ call.body = <<WMid, WPlain>>
  /\ WMid \in Range(imageUrls)
  /\ WPlain \notin Range(imageUrls)
  /\ \E u \in Range(imageUrls) : u # WMid /\ SizeCount(u) = 1

----------------------------------------------------------------------------
(* The list handed to downloadAll *)

\* C36 as stated: every URL scrapeProductPage hands to retrieval is an
\* alicdn.com URL, whether the list is the set of the target, the ranked
\* list or the fallback list.
C36_RetrievesFromCdnOnly ==
  /\ \A i \in 1..Len(selectedUrls) : IncludesAlicdn(selectedUrls[i])
  /\ dl # NoDl => \A i \in 1..Len(dl.unique) : IncludesAlicdn(dl.unique[i])

\* C37: the list being retrieved is a snapshot: no step taken while
\* downloadAll runs, a response handler that adds URLs to the store included,
\* changes the list selected or the list downloadAll works through, and the
\* totalFound of a returned result is the length of the list selected.
C37_RetrievedListIsSnapshot ==
  [][/\ pc = "Retrieving" =>
          /\ selectedUrls' = selectedUrls
          /\ dl.unique = Dedup(selectedUrls)
          /\ dl'.unique = dl.unique
     /\ (Len(results') > Len(results) /\ results'[Len(results')].success) =>
          results'[Len(results')].totalFound = Len(selectedUrls')]_vars

\* downloadAll is at work on a list that URL selection would no longer
\* produce from the store
C37_Witness ==
  /\ pc = "Retrieving"
  /\ dl.mode \in {"fetch", "stream"}
  /\ selectedUrls #
       SelectImageUrls(imageUrls, productImages, ProductIdOr(productInfo))
  /\ Len(imageUrls) # Len(selectedUrls)

----------------------------------------------------------------------------
(* The result object of scrapeProductPage *)

\* the step hands the value scrapeProductPage returned to the batch loop
\* (the entry of a call that threw has an error field instead)
Returns ==
  /\ Len(results') = Len(results) + 1
  /\ "error" \notin DOMAIN results'[Len(results')]

\* C38 as stated: scrapeProductPage returns success:true exactly when the
\* selected URL list is non-empty, and every returned result has at most
\* totalFound image paths.
C38_EveryResultWithinTotalFound ==
  [][Returns =>
       LET r == results'[Len(results')]
       IN /\ r.success <=> Len(selectedUrls') > 0
          /\ "totalFound" \in DOMAIN r
          /\ Len(r.images) <= r.totalFound]_vars

\* C38: scrapeProductPage returns success:true exactly when the selected URL
\* list is non-empty, whatever the retrievals did; a successful result has
\* at most totalFound image paths, and the unsuccessful result is
\* {success: false, images: []}, without totalFound.
C38_SuccessIffSelected ==
  [][Returns =>
       LET r == results'[Len(results')]
       IN /\ r.success <=> Len(selectedUrls') > 0
          /\ r.success =>
               /\ r.totalFound = Len(selectedUrls')
               /\ Len(r.images) <= r.totalFound
          /\ ~r.success => DOMAIN r = {"success", "images"} /\ r.images = <<>>]_vars

\* a result with success:true and no image: every retrieval failed
C38_Witness ==
  \E k \in 1..Len(results) :
    /\ results[k].success
    /\ results[k].images = <<>>
    /\ results[k].totalFound >= 2
    /\ Len(dl.failed) = results[k].totalFound

====
